---- MODULE Spec2Model ----
(***************************************************************************)
(* Model of the agent execution engine of shopping-agent:                  *)
(*   - the two decision loops, AgentSDKRunner.run (agent_sdk_runner.py)    *)
(*     and AgentRunner.run (runtime.py), with the tool registry and the    *)
(*     two tool dispatchers (sdk_tools.execute_tool,                       *)
(*     AgentRunner._execute_tool);                                         *)
(*   - the human-input broker HumanIOBroker (human_io.py) with the HTTP    *)
(*     handler that feeds it (main.py, /agent/input);                      *)
(*   - the workflows that wrap a run, ShoppingWorkflow and                 *)
(*     AuthenticationWorkflow, with the signal endpoints of main.py        *)
(*     (/v2/signal/pause, resume, cancel).                                 *)
(* Each component has its own specification over the shared variable       *)
(* tuple; the variables of the other components stay at their initial      *)
(* value.                                                                  *)
(***************************************************************************)
EXTENDS Integers, Sequences, FiniteSets, TLC

\* ------------------------------------------------------------------------
\* Bounds of the model
\* ------------------------------------------------------------------------
MaxBudget == 2      \* largest max_total_steps / global_budget explored
MaxActions == 2     \* largest max_actions_per_step explored (AgentRunner)
MaxCalls == 2       \* most tool calls in one model decision
NumWaiters == 2     \* wait_for_input calls that may be in flight
MaxSubmits == 2     \* POSTs to /agent/input explored
MaxAttempts == 3    \* activity attempts explored under an unlimited policy
MaxLoopSteps == 2   \* tool-executing loop steps explored in one attempt
MaxSignals == 2     \* POSTs to /v2/signal/... explored
MaxRecords == 4     \* entries pushed to the experience bucket
MaxKeep == 3        \* max_keep of record_experience (100 in the code)
SearchN == 2        \* search_n of retrieve_known_resolution (50 in the code)
MaxClarifications == 3  \* largest clarification_count given to the agent
MaxRetries == 3     \* largest retries argument of retry_async explored

\* ------------------------------------------------------------------------
\* Strings are sequences of tokens; Python's `needle in text` is token
\* membership.
\* ------------------------------------------------------------------------
Contains(text, needle) == \E i \in 1..Len(text) : text[i] = needle

\* An argument map is a set of <<key, value>> pairs with distinct keys.
Keys(args) == {p[1] : p \in args}

\* dict.get(key, default)
Get(args, key, default) ==
    IF key \in Keys(args) THEN (CHOOSE p \in args : p[1] = key)[2] ELSE default

\* ------------------------------------------------------------------------
\* Tool registry (the part of TOOL_IMPLS the model exercises): for each
\* registered name the keyword-only parameters of its implementation.
\* ------------------------------------------------------------------------
TOOL_IMPLS ==
    [ type            |-> [required |-> {"selector", "text"}, optional |-> {}],
      fill_label      |-> [required |-> {"label", "value"},
                           optional |-> {"exact", "timeout_ms", "delay_ms"}],
      finalize        |-> [required |-> {"status"},
                           optional |-> {"provider", "error", "screenshot"}],
      invoke_subagent |-> [required |-> {"name", "goal"}, optional |-> {}],
      request_input   |-> [required |-> {},
                           optional |-> {"kind", "prompt", "timeout_seconds"}] ]

\* impl(env, **args) binds: every required keyword present, none unknown.
Binds(tool_name, args) ==
    /\ TOOL_IMPLS[tool_name].required \subseteq Keys(args)
    /\ Keys(args) \subseteq
         (TOOL_IMPLS[tool_name].required \cup TOOL_IMPLS[tool_name].optional)

\* allowed_tools as the agents pass it: every registered tool but the
\* denied invoke_subagent.
AllowedTools == DOMAIN TOOL_IMPLS \ {"invoke_subagent"}

\* Model-supplied arguments that decode to a JSON value which is not an
\* object (a non-empty array): no keyword of it can be read or bound.
NonObject == {<<"$array", <<"1">>>>}

\* isinstance(args, dict)
IsDict(args) == args # NonObject

\* Tool calls a model decision may contain.
Calls ==
    { [name |-> "type",
       args |-> {<<"selector", <<"#pw">>>>, <<"text", <<"hello">>>>}],
      [name |-> "type",
       args |-> {<<"selector", <<"#pw">>>>, <<"text", <<"${PASSWORD}">>>>}],
      [name |-> "fill_label",
       args |-> {<<"label", <<"Password">>>>, <<"value", <<"${PASSWORD}">>>>}],
      [name |-> "finalize", args |-> {<<"status", <<"success">>>>}],
      [name |-> "finalize", args |-> {}],
      [name |-> "invoke_subagent",
       args |-> {<<"name", <<"auth">>>>, <<"goal", <<"login">>>>}],
      [name |-> "bogus", args |-> {}],
      [name |-> "request_input", args |-> {<<"kind", <<"modal_help">>>>}],
      [name |-> "fill_label", args |-> NonObject] }

SeqsUpTo(S, n) == UNION {[1..k -> S] : k \in 0..n}

\* A model decision: the proposed tool calls and the explicit termination
\* flag (AgentDecision.terminate; the tool-calling protocol of the SDK
\* runner carries the same intent as plain assistant text).
Decisions == [actions : SeqsUpTo(Calls, MaxCalls), terminate : BOOLEAN]

NoDecision == [actions |-> <<>>, terminate |-> FALSE]

\* The decisions a chat completion of the SDK runner carries: tool calls
\* or text, no termination flag.
Completions == {d \in Decisions : ~d.terminate}

\* What a tool implementation does once entered: the environment decides.
Outcomes == {"ok", "raise", "timeout"}

\* Unresolved placeholder markers.
PlaceholderMarkers == {"${PASSWORD}", "${USERNAME}", "_FROM_HINT"}

HasPlaceholder(args) ==
    \E p \in args : \E m \in PlaceholderMarkers : Contains(p[2], m)


\* ------------------------------------------------------------------------
\* State
\* ------------------------------------------------------------------------
VARIABLES
    \* --- decision loops ---
    runner,                 \* "sdk" (AgentSDKRunner) or "legacy" (AgentRunner)
    budget,                 \* _max_total_steps / _global_budget
    max_steps,              \* AgentRunner._max_steps
    max_actions_per_step,   \* AgentRunner._max_actions_per_step
    pc,                     \* position of run()
    steps_used,             \* AgentSDKRunner.run: steps_used
    global_spent,           \* AgentRunner._global_spent
    step,                   \* AgentRunner.run: loop variable step
    consecutive_failures,   \* AgentSDKRunner.run: consecutive_failures
    decision,               \* the model decision being processed
    idx,                    \* position of the for loop over its tool calls
    messages,               \* SDK transcript, the part appended this iteration
    observations,           \* AgentRunner.run: observations of this step
    result,                 \* the dict run() returned
    executed,               \* history: calls handed to a tool dispatcher
    finalized,              \* history: a finalize call returned ok
    lastOut,                \* history: what the environment did to the
                            \* implementation the last dispatch entered
    raised,                 \* the exception that escaped run(), "" if none
    inflight,               \* calls of the decision whose implementation has
                            \* been entered and has neither completed nor
                            \* been cancelled
    reset_calls,            \* the resets of transient browser state called on
                            \* the context of the page since it was created
    \* --- human-input broker ---
    pending,                \* HumanIOBroker._pending
    fut,                    \* the future of each wait_for_input call
    wstate,                 \* position of each wait_for_input call
    wrun,                   \* its run_id argument
    wkind,                  \* its kind argument
    outcome,                \* how it ended
    submits,                \* POSTs handled so far
    lastSubmit,             \* the last POST: arguments, return value, status
    accepted,               \* history: per call, how many submissions returned
                            \* True, and the value and the state of the future
                            \* at the last of them
    \* --- workflows ---
    wf,                     \* the workflow type started
    wf_state,               \* the state of the workflow execution
    wf_attempt,             \* the attempt of its activity
    wf_steps,               \* tool-executing steps the current attempt has made
    wf_result,              \* what the workflow returned
    wf_signals,             \* POSTs to the signal endpoints handled so far
    lastSignal,             \* the last of them: signal, response status, and
                            \* the workflow state it found
    \* --- event channel ---
    events,                 \* the events published to the channel, in order
    reported,               \* the wait_for_input calls whose request_input
                            \* tool call has returned to the loop
    pub,                    \* how the last publish_event call ended, and
                            \* whether the channel took its event
    \* --- experience store ---
    store,                  \* the Redis list of the bucket, head first
    appended,               \* history: every entry pushed, newest first
    rpc,                    \* position of each run's record_experience call
    rout,                   \* how the last record_experience call to end did
                            \* so, and whether a storage command failed in it
    probe,                  \* the last probe of the loop head for a known
                            \* resolution, and what the step did with it
    \* --- agent runs that ask for human input ---
    hin,                    \* per wait_for_input call: the agent whose run
                            \* made it, what its dispatcher returned for the
                            \* request_input call, and the run_id of the
                            \* result of the run
    \* --- conversation workflow ---
    cv_pc,                  \* position of ConversationWorkflow.run
    cv_count,               \* state.clarification_count
    cv_arg,                 \* the clarification_count the agent was given
    cv_decision,            \* the decision the conversation activity returned
    cv_retry,               \* state.agent_retry_count
    cv_attempt,             \* attempt of the activity of the current
                            \* execute_activity call
    cv_calls,               \* history: execute_activity calls of the delegation
    cv_runs,                \* history: executions of the agent activity started
    cv_agent_result,        \* what _delegate_with_retry returned
    cv_result,              \* what run() returned
    \* --- retry_async ---
    rt_pc,                  \* position of retry_async
    rt_retries,             \* its argument retries
    rt_max_delay,           \* its argument max_delay_seconds, in tenths
    rt_attempt,             \* attempt
    rt_delay,               \* delay, in tenths of a second
    rt_invocations,         \* history: awaits of operation()
    rt_sleeps,              \* history: each sleep, the delay it was derived
                            \* from and its length
    rt_outcome              \* how the call ended

loopVars == <<runner, budget, max_steps, max_actions_per_step, pc, steps_used,
              global_spent, step, consecutive_failures, decision, idx,
              messages, observations, result, executed, finalized,
              lastOut, raised, inflight, reset_calls>>

brokerVars == <<pending, fut, wstate, wrun, wkind, outcome, submits,
                lastSubmit, accepted>>

wfVars == <<wf, wf_state, wf_attempt, wf_steps, wf_result, wf_signals,
            lastSignal>>

evVars == <<events, reported, pub>>

memVars == <<store, appended, rpc, rout, probe>>

inVars == <<hin>>

cvVars == <<cv_pc, cv_count, cv_arg, cv_decision, cv_retry, cv_attempt,
            cv_calls, cv_runs, cv_agent_result, cv_result>>

rtVars == <<rt_pc, rt_retries, rt_max_delay, rt_attempt, rt_delay, rt_invocations,
            rt_sleeps, rt_outcome>>

vars == <<runner, budget, max_steps, max_actions_per_step, pc, steps_used,
          global_spent, step, consecutive_failures, decision, idx,
          messages, observations, result, executed, finalized,
          lastOut, raised, inflight, reset_calls,
          pending, fut, wstate, wrun, wkind, outcome, submits,
          lastSubmit, accepted,
          wf, wf_state, wf_attempt, wf_steps, wf_result, wf_signals,
          lastSignal,
          events, reported, pub,
          store, appended, rpc, rout, probe,
          hin,
          cv_pc, cv_count, cv_arg, cv_decision, cv_retry, cv_attempt,
          cv_calls, cv_runs, cv_agent_result, cv_result,
          rt_pc, rt_retries, rt_max_delay, rt_attempt, rt_delay,
          rt_invocations, rt_sleeps, rt_outcome>>

\* ------------------------------------------------------------------------
\* Tool implementations and the two dispatchers
\* ------------------------------------------------------------------------
Min(a, b) == IF a < b THEN a ELSE b
Max(a, b) == IF a > b THEN a ELSE b

NoStatus == <<>>

\* agents.max_steps_per_agent, the default of AgentRunner._max_steps
DefaultMaxSteps == 2

\* a request_input that reports an empty value when the wait times out
t_request_input_OkOnTimeout(args, out) ==
    CASE out = "raise" ->
           [how |-> "return", ok |-> FALSE, error |-> "exception",
            status |-> NoStatus]
      [] OTHER ->
           [how |-> "return", ok |-> TRUE, error |-> "", status |-> NoStatus]

\* tools.t_request_input with env.run_id set: the value of the wait is
\* returned with ok = True; the TimeoutError of the wait (its text is
\* empty) and any other exception are caught and reported with ok = False.
\* A wait cancelled from outside ends in CancelledError, which is not an
\* Exception and passes the except clause: the call does not return.
t_request_input(args, out) ==
    CASE out = "ok" ->
           [how |-> "return", ok |-> TRUE, error |-> "", status |-> NoStatus]
      [] out = "timeout" ->
           [how |-> "return", ok |-> FALSE, error |-> "", status |-> NoStatus]
      [] out = "cancelled" ->
           [how |-> "hang", ok |-> FALSE, error |-> "", status |-> NoStatus]
      [] OTHER ->
           [how |-> "return", ok |-> FALSE, error |-> "exception",
            status |-> NoStatus]

\* The body of a registered tool, entered with arguments that bind.
\* finalize echoes its status; invoke_subagent finds env.invoke_subagent
\* unset (the activities never configure it); type propagates a failure of
\* the page, fill_label catches it and reports ok = False; a page
\* operation that never completes leaves the tool suspended.
ToolImpl(tool_name, args, out) ==
    CASE tool_name = "finalize" ->
           [how |-> "return", ok |-> TRUE, error |-> "",
            status |-> Get(args, "status", NoStatus)]
      [] tool_name = "invoke_subagent" ->
           [how |-> "return", ok |-> FALSE,
            error |-> "invoke_subagent not configured", status |-> NoStatus]
      [] tool_name = "request_input" -> t_request_input(args, out)
      [] out = "timeout" ->
           [how |-> "hang", ok |-> FALSE, error |-> "", status |-> NoStatus]
      [] out = "ok" ->
           [how |-> "return", ok |-> TRUE, error |-> "", status |-> NoStatus]
      [] out = "raise" /\ tool_name = "fill_label" ->
           [how |-> "return", ok |-> FALSE, error |-> "exception",
            status |-> NoStatus]
      [] OTHER ->
           [how |-> "raise", ok |-> FALSE, error |-> "exception",
            status |-> NoStatus]

\* The outcomes the environment can give a tool: finalize and
\* invoke_subagent return without touching the page or waiting.
EnvOutcomes(tool_name) ==
    IF tool_name \in {"finalize", "invoke_subagent"} THEN {"ok"} ELSE Outcomes

\* The dispatch of a call reaches the body of an implementation.
Enters(tool_name, args) ==
    tool_name \in DOMAIN TOOL_IMPLS /\ Binds(tool_name, args)

\* The result dict of a dispatch; invoked records whether the body of the
\* implementation was entered.
Obs(ok, error, status, invoked) ==
    [ok |-> ok, error |-> error, status |-> status, invoked |-> invoked]

\* a dispatcher that swallows the exception of an implementation and
\* reports success
execute_tool_RaiseAsOk(tool_name, args, out) ==
    IF tool_name \notin DOMAIN TOOL_IMPLS
    THEN Obs(FALSE, "unknown tool", NoStatus, FALSE)
    ELSE IF ~Binds(tool_name, args)
    THEN Obs(FALSE, "bad args", NoStatus, FALSE)
    ELSE LET r == ToolImpl(tool_name, args, out)
         IN  IF r.how = "return"
             THEN Obs(r.ok, r.error, r.status, TRUE)
             ELSE Obs(TRUE, "", NoStatus, TRUE)

\* sdk_tools.execute_tool
execute_tool(tool_name, args, out) ==
    IF tool_name \notin DOMAIN TOOL_IMPLS
    THEN Obs(FALSE, "unknown tool", NoStatus, FALSE)
    ELSE IF ~Binds(tool_name, args)
    THEN Obs(FALSE, "bad args", NoStatus, FALSE)
    ELSE LET r == ToolImpl(tool_name, args, out)
         IN  IF r.how = "return"
             THEN Obs(r.ok, r.error, r.status, TRUE)
             ELSE Obs(FALSE, "exception", NoStatus, TRUE)

\* a dispatcher without the clause for asyncio.TimeoutError
_execute_tool_TimeoutUnhandled(tool_name, args, out) ==
    IF tool_name \notin DOMAIN TOOL_IMPLS
    THEN Obs(FALSE, "unknown tool", NoStatus, FALSE)
    ELSE IF ~Binds(tool_name, args)
    THEN Obs(FALSE, "exception", NoStatus, FALSE)
    ELSE LET r == ToolImpl(tool_name, args, out)
         IN  CASE r.how = "return" -> Obs(r.ok, r.error, r.status, TRUE)
               [] OTHER -> Obs(FALSE, "exception", NoStatus, TRUE)

\* AgentRunner._execute_tool
_execute_tool(tool_name, args, out) ==
    IF tool_name \notin DOMAIN TOOL_IMPLS
    THEN Obs(FALSE, "unknown tool", NoStatus, FALSE)
    ELSE IF ~Binds(tool_name, args)
    THEN Obs(FALSE, "exception", NoStatus, FALSE)
    ELSE LET r == ToolImpl(tool_name, args, out)
         IN  CASE r.how = "return" -> Obs(r.ok, r.error, r.status, TRUE)
               [] r.how = "hang" -> Obs(FALSE, "timeout", NoStatus, TRUE)
               [] OTHER -> Obs(FALSE, "exception", NoStatus, TRUE)

\* AgentRunner.run, the placeholder guard on one call
PlaceholderGuard(args) ==
    LET sel == Get(args, "selector", <<>>)
        txt == Get(args, "text", <<>>)
    IN  \/ Contains(sel, "_FROM_HINT")
        \/ Contains(txt, "${USERNAME}")
        \/ Contains(txt, "${PASSWORD}")

\* AgentRunner.run: actions[: max(1, max_actions_per_step)]
ActionsToRun(d) ==
    SubSeq(d.actions, 1, Min(Len(d.actions), Max(1, max_actions_per_step)))

NoResult == [returned |-> FALSE, terminated |-> FALSE, reason |-> "",
             status |-> NoStatus]

Returned(terminated, reason, status) ==
    [returned |-> TRUE, terminated |-> terminated, reason |-> reason,
     status |-> status]

\* transcript entries of the SDK runner
ToolMsg(i, name, r) ==
    [role |-> "tool", kind |-> "tool_result", call |-> i, tool |-> name,
     ok |-> r.ok, error |-> r.error, invoked |-> r.invoked]

AssistantMsg(kind) ==
    [role |-> "assistant", kind |-> kind, call |-> 0, tool |-> "",
     ok |-> TRUE, error |-> "", invoked |-> FALSE]

\* The CONTEXT_AUTO_OBSERVE entry: the snapshot it carries says whether a
\* modal is on the page.
AutoObserveMsg(modal_present) ==
    [role |-> "assistant", kind |-> "auto_observe", call |-> 0, tool |-> "",
     ok |-> TRUE, error |-> "", invoked |-> FALSE, modal |-> modal_present]

\* observation entries of AgentRunner
ToolObs(i, name, r) ==
    [call |-> i, tool |-> name, ok |-> r.ok, error |-> r.error,
     status |-> r.status, invoked |-> r.invoked]

AutoObs == [call |-> 0, tool |-> "auto_observe", ok |-> TRUE, error |-> "",
            status |-> NoStatus, invoked |-> FALSE]


\* ------------------------------------------------------------------------
\* Initial states
\* ------------------------------------------------------------------------
RunIds == {"r1", "r2"}
Kinds == {"email_continue", "modal_help"}
Values == {"OK", "NO"}
Waiters == 1..NumWaiters

NoPending == [future |-> 0, kind |-> "none"]
NoSubmit == [run_id |-> "none", kind |-> "none",
             ret |-> FALSE, status |-> 0, entry |-> NoPending]
NewFuture == [state |-> "pending", value |-> "none"]
NoOutcome == [how |-> "none", value |-> "none"]
NoAccept == [count |-> 0, value |-> "none", before |-> "none"]

LoopIdle ==
    /\ runner = "none"
    /\ budget = 0
    /\ max_steps = 0
    /\ max_actions_per_step = 0
    /\ pc = "idle"
    /\ steps_used = 0
    /\ global_spent = 0
    /\ step = 0
    /\ consecutive_failures = 0
    /\ decision = NoDecision
    /\ idx = 0
    /\ messages = <<>>
    /\ observations = <<>>
    /\ result = NoResult
    /\ executed = 0
    /\ finalized = FALSE
    /\ lastOut = "none"
    /\ raised = ""
    /\ inflight = {}
    /\ reset_calls = {}

NoSignal == [name |-> "none", status |-> 0, found |-> "none"]
NoWfResult == [returned |-> FALSE, terminated |-> FALSE]

\* No workflow has been started.
WorkflowIdle ==
    /\ wf = "none"
    /\ wf_state = "none"
    /\ wf_attempt = 0
    /\ wf_steps = 0
    /\ wf_result = NoWfResult
    /\ wf_signals = 0
    /\ lastSignal = NoSignal

\* Nothing has been published.
NoPublish == [how |-> "none", delivered |-> FALSE]

NoEvents == events = <<>> /\ reported = {} /\ pub = NoPublish

\* Modal signatures: the first words of the title and of the text of a
\* dialog. The first two share no keyword.
Signatures ==
    { [title_kws |-> <<"login">>, text_kws |-> <<>>],
      [title_kws |-> <<"cookies">>, text_kws |-> <<"accept">>],
      [title_kws |-> <<"login", "cookies">>, text_kws |-> <<"accept">>] }

NoSignature == [title_kws |-> <<>>, text_kws |-> <<>>]

RecipeStep(tool) == [tool |-> tool, args |-> {}]

\* None, and the value of an empty recipe list: both are false in Python.
NoRecipe == <<>>

\* The experiences recorded: signature and recipe. The first two differ in
\* the recipe only; the last one has an empty recipe.
RecordCalls ==
    { [signature |-> [title_kws |-> <<"login">>, text_kws |-> <<>>],
       recipe |-> <<RecipeStep("click")>>],
      [signature |-> [title_kws |-> <<"login">>, text_kws |-> <<>>],
       recipe |-> <<RecipeStep("press")>>],
      [signature |-> [title_kws |-> <<"cookies">>, text_kws |-> <<"accept">>],
       recipe |-> <<RecipeStep("click_text")>>],
      [signature |-> [title_kws |-> <<"login", "cookies">>,
                      text_kws |-> <<"accept">>],
       recipe |-> NoRecipe] }

NoEntry == [signature |-> NoSignature, recipe |-> NoRecipe]

NoRecordOutcome == [how |-> "none", failed |-> FALSE]

NoRetrieve == [how |-> "none", recipe |-> NoRecipe]

NoProbe == [modal_present |-> FALSE, signature |-> NoSignature,
            failed |-> FALSE, retrieved |-> NoRetrieve, hint |-> NoRecipe,
            next |-> "none"]

\* The bucket is empty, no call has been made.
MemoryInit ==
    /\ store = <<>>
    /\ appended = <<>>
    /\ rpc = [r \in RunIds |-> "idle"]
    /\ rout = NoRecordOutcome
    /\ probe = NoProbe

\* No request_input call has returned to a dispatcher, no run has returned.
NoToolResult == [ok |-> TRUE, error |-> "none", status |-> NoStatus,
                 invoked |-> FALSE]

NoHin == [agent |-> "none", result |-> NoToolResult, run_id |-> "none"]

RunInputIdle == hin = [w \in Waiters |-> NoHin]

\* No conversation workflow has been started.
NoConversationDecision == [intent |-> "none"]

NoAgentResult == [ok |-> TRUE, status |-> "none", raised |-> FALSE]

NoTurnResult == [returned |-> FALSE, next_action |-> "none"]

AgentTypes == {"authentication", "shopping", "none"}

ConversationIdle ==
    /\ cv_pc = "idle"
    /\ cv_count = 0
    /\ cv_arg = 0
    /\ cv_decision = NoConversationDecision
    /\ cv_retry = [a \in AgentTypes |-> 0]
    /\ cv_attempt = 0
    /\ cv_calls = 0
    /\ cv_runs = 0
    /\ cv_agent_result = NoAgentResult
    /\ cv_result = NoTurnResult

\* retry_async has not been called.
NoRetryOutcome == [how |-> "none", value |-> "none"]

RetryIdle ==
    /\ rt_pc = "idle"
    /\ rt_retries = 0
    /\ rt_max_delay = 0
    /\ rt_attempt = 0
    /\ rt_delay = 0
    /\ rt_invocations = 0
    /\ rt_sleeps = <<>>
    /\ rt_outcome = NoRetryOutcome

\* HumanIOBroker.__init__
BrokerInit ==
    /\ pending = [r \in RunIds |-> NoPending]
    /\ fut = [w \in Waiters |-> NewFuture]
    /\ wstate = [w \in Waiters |-> "idle"]
    /\ wrun = [w \in Waiters |-> "none"]
    /\ wkind = [w \in Waiters |-> "none"]
    /\ outcome = [w \in Waiters |-> NoOutcome]
    /\ submits = 0
    /\ lastSubmit = NoSubmit
    /\ accepted = [w \in Waiters |-> NoAccept]

\* AgentSDKRunner.__init__ / AgentRunner.__init__, and the top of run().
\* The page the run is given was opened by its activity in a context made
\* by web_automation.new_context, which calls clear_cookies on it.
LoopInit ==
    /\ runner \in {"sdk", "legacy"}
    /\ budget \in 1..MaxBudget
    /\ max_steps = IF runner = "legacy" THEN DefaultMaxSteps ELSE 0
    /\ max_actions_per_step \in IF runner = "legacy" THEN 0..MaxActions ELSE {0}
    /\ pc = "start"
    /\ steps_used = 0
    /\ global_spent = 0
    /\ step = 0
    /\ consecutive_failures = 0
    /\ decision = NoDecision
    /\ idx = 0
    /\ messages = <<>>
    /\ observations = <<>>
    /\ result = NoResult
    /\ executed = 0
    /\ finalized = FALSE
    /\ lastOut = "none"
    /\ raised = ""
    /\ inflight = {}
    /\ reset_calls = {"clear_cookies"}

\* ------------------------------------------------------------------------
\* AgentSDKRunner.run
\* ------------------------------------------------------------------------
\* Transcript set up; clear_cookies is called on the context and the
\* script that clears localStorage and sessionStorage is registered on the
\* page (an exception of either call is swallowed); the loop is entered.
SDKStart ==
    /\ runner = "sdk" /\ pc = "start"
    /\ pc' = "head"
    /\ reset_calls' = reset_calls \cup {"clear_cookies", "storage_clear"}
    /\ UNCHANGED <<runner, budget, max_steps, max_actions_per_step,
                   steps_used, global_spent, step, consecutive_failures,
                   decision, idx, messages, observations, result, executed,
                   finalized, lastOut, raised, inflight>>
    /\ UNCHANGED brokerVars
    /\ UNCHANGED wfVars
    /\ UNCHANGED evVars
    /\ UNCHANGED memVars
    /\ UNCHANGED inVars
    /\ UNCHANGED cvVars
    /\ UNCHANGED rtVars

\* One iteration of the while loop up to the for loop: the completion
\* returns decision d (content says whether it carries text); without tool
\* calls the iteration ends with an auto-observation and costs one step.
\* A completion has no termination flag.
SDKDecide ==
    /\ runner = "sdk" /\ pc = "head"
    /\ steps_used < budget
    /\ \E d \in Completions :
        /\ decision' = d
        /\ IF d.actions # <<>>
           THEN /\ messages' = <<AssistantMsg("tool_calls")>>
                /\ idx' = 1
                /\ pc' = "exec"
                /\ steps_used' = steps_used
           ELSE /\ \E content \in BOOLEAN, modal_present \in BOOLEAN :
                     messages' =
                       (IF content
                        THEN <<AssistantMsg("text"), AssistantMsg("text")>>
                        ELSE <<>>) \o <<AutoObserveMsg(modal_present)>>
                /\ idx' = 0
                /\ pc' = "head"
                /\ steps_used' = steps_used + 1
    /\ lastOut' = "none"
    /\ UNCHANGED <<runner, budget, max_steps, max_actions_per_step,
                   global_spent, step, consecutive_failures, observations,
                   result, executed, finalized, raised, inflight>>
    /\ UNCHANGED reset_calls
    /\ UNCHANGED brokerVars
    /\ UNCHANGED wfVars
    /\ UNCHANGED evVars
    /\ UNCHANGED memVars
    /\ UNCHANGED inVars
    /\ UNCHANGED cvVars
    /\ UNCHANGED rtVars

\* an await that returns while the implementation keeps running
AfterAwait_StillRunning(i) == inflight

\* The implementations in flight once the await of call i is over: the
\* coroutine of call i has returned, raised, or been cancelled by wait_for.
AfterAwait(i) == inflight \ {i}

\* a failure counter that a successful call does not reset
SDKAfterTool_NoReset(r, modal_present) ==
    LET tc == decision.actions[idx]
        failures == IF ~r.ok THEN consecutive_failures + 1
                    ELSE consecutive_failures
        withTool == Append(messages, ToolMsg(idx, tc.name, r))
    IN  /\ steps_used' = steps_used + 1
        /\ consecutive_failures' = failures
        /\ IF tc.name = "finalize" /\ r.ok
           THEN /\ messages' = withTool
                /\ finalized' = TRUE
                /\ result' = Returned(TRUE, "", r.status)
                /\ pc' = "done"
                /\ idx' = idx
           ELSE /\ messages' =
                     withTool \o <<AutoObserveMsg(modal_present)>> \o
                     (IF failures >= 2 \/ modal_present
                      THEN <<AssistantMsg("hint")>> ELSE <<>>)
                /\ idx' = idx + 1
                /\ pc' = IF idx = Len(decision.actions)
                         THEN "head" ELSE "exec"
                /\ UNCHANGED <<result, finalized>>

\* The rest of a pass of the for loop once the dispatcher has returned r:
\* the tool message is appended and the step counted; a finalize that
\* returned ok ends the run, anything else is followed by the
\* auto-observation and the request_input hint.
SDKAfterTool(r, modal_present) ==
    LET tc == decision.actions[idx]
        failures == IF ~r.ok THEN consecutive_failures + 1 ELSE 0
        withTool == Append(messages, ToolMsg(idx, tc.name, r))
    IN  /\ steps_used' = steps_used + 1
        /\ consecutive_failures' = failures
        /\ IF tc.name = "finalize" /\ r.ok
           THEN /\ messages' = withTool
                /\ finalized' = TRUE
                /\ result' = Returned(TRUE, "", r.status)
                /\ pc' = "done"
                /\ idx' = idx
           ELSE /\ messages' =
                     withTool \o <<AutoObserveMsg(modal_present)>> \o
                     (IF failures >= 2 \/ modal_present
                      THEN <<AssistantMsg("hint")>> ELSE <<>>)
                /\ idx' = idx + 1
                /\ pc' = IF idx = Len(decision.actions)
                         THEN "head" ELSE "exec"
                /\ UNCHANGED <<result, finalized>>

\* One pass of the for loop up to the await of the implementation: the
\* arguments are decoded, the value of a fill_label call is read with
\* args.get (which a decoded non-object does not have), and the call is
\* handed to execute_tool. A call that reaches no implementation gets its
\* result at once.
SDKExecToolCall(modal_present) ==
    /\ runner = "sdk" /\ pc = "exec"
    /\ LET tc == decision.actions[idx]
       IN  IF tc.name \in {"modal_fill_label", "fill_label"} /\ ~IsDict(tc.args)
           THEN /\ raised' = "AttributeError"
                /\ pc' = "raised"
                /\ UNCHANGED <<steps_used, consecutive_failures, messages,
                               idx, result, finalized, executed, lastOut,
                               inflight>>
           ELSE IF Enters(tc.name, tc.args)
           THEN /\ inflight' = inflight \cup {idx}
                /\ executed' = executed + 1
                /\ pc' = "await"
                /\ UNCHANGED <<steps_used, consecutive_failures, messages,
                               idx, result, finalized, lastOut, raised>>
           ELSE /\ executed' = executed + 1
                /\ lastOut' = "none"
                /\ SDKAfterTool(execute_tool(tc.name, tc.args, "ok"),
                                modal_present)
                /\ UNCHANGED <<raised, inflight>>
    /\ UNCHANGED <<runner, budget, max_steps, max_actions_per_step,
                   global_spent, step, decision, observations>>
    /\ UNCHANGED reset_calls
    /\ UNCHANGED brokerVars
    /\ UNCHANGED wfVars
    /\ UNCHANGED evVars
    /\ UNCHANGED memVars
    /\ UNCHANGED inVars
    /\ UNCHANGED cvVars
    /\ UNCHANGED rtVars

\* The awaited implementation ends as the environment decides. No timeout
\* guards the await: an implementation that never completes leaves run()
\* suspended in it.
SDKToolReturns(out, modal_present) ==
    /\ runner = "sdk" /\ pc = "await"
    /\ LET tc == decision.actions[idx]
       IN  /\ out \in EnvOutcomes(tc.name)
           /\ lastOut' = out
           /\ IF ToolImpl(tc.name, tc.args, out).how = "hang"
              THEN /\ pc' = "blocked"
                   /\ UNCHANGED <<steps_used, consecutive_failures, messages,
                                  idx, result, finalized, inflight>>
              ELSE /\ inflight' = AfterAwait(idx)
                   /\ SDKAfterTool(execute_tool(tc.name, tc.args, out),
                                   modal_present)
    /\ UNCHANGED <<runner, budget, max_steps, max_actions_per_step,
                   global_spent, step, decision, observations, executed,
                   raised>>
    /\ UNCHANGED reset_calls
    /\ UNCHANGED brokerVars
    /\ UNCHANGED wfVars
    /\ UNCHANGED evVars
    /\ UNCHANGED memVars
    /\ UNCHANGED inVars
    /\ UNCHANGED cvVars
    /\ UNCHANGED rtVars

\* The chat completion request fails (transport or API error): the call
\* is not inside a try, the exception leaves run().
SDKCompletionFails ==
    /\ runner = "sdk" /\ pc = "head"
    /\ steps_used < budget
    /\ raised' = "APIError"
    /\ pc' = "raised"
    /\ UNCHANGED <<runner, budget, max_steps, max_actions_per_step,
                   steps_used, global_spent, step, consecutive_failures,
                   decision, idx, messages, observations, result, executed,
                   finalized, lastOut, inflight>>
    /\ UNCHANGED reset_calls
    /\ UNCHANGED brokerVars
    /\ UNCHANGED wfVars
    /\ UNCHANGED evVars
    /\ UNCHANGED memVars
    /\ UNCHANGED inVars
    /\ UNCHANGED cvVars
    /\ UNCHANGED rtVars

\* The while condition fails: budget exceeded.
SDKBudgetExceeded ==
    /\ runner = "sdk" /\ pc = "head"
    /\ ~(steps_used < budget)
    /\ result' = Returned(FALSE, "max_steps_exceeded", NoStatus)
    /\ pc' = "done"
    /\ UNCHANGED <<runner, budget, max_steps, max_actions_per_step,
                   steps_used, global_spent, step, consecutive_failures,
                   decision, idx, messages, observations, executed,
                   finalized, lastOut, raised, inflight>>
    /\ UNCHANGED reset_calls
    /\ UNCHANGED brokerVars
    /\ UNCHANGED wfVars
    /\ UNCHANGED evVars
    /\ UNCHANGED memVars
    /\ UNCHANGED inVars
    /\ UNCHANGED cvVars
    /\ UNCHANGED rtVars

\* ------------------------------------------------------------------------
\* AgentRunner.run
\* ------------------------------------------------------------------------
\* Transcript set up; the loop is entered. Nothing is called on the page
\* or its context before the first decision.
RunnerStart ==
    /\ runner = "legacy" /\ pc = "start"
    /\ pc' = "head"
    /\ UNCHANGED <<runner, budget, max_steps, max_actions_per_step,
                   steps_used, global_spent, step, consecutive_failures,
                   decision, idx, messages, observations, result, executed,
                   finalized, lastOut, raised, inflight>>
    /\ UNCHANGED reset_calls
    /\ UNCHANGED brokerVars
    /\ UNCHANGED wfVars
    /\ UNCHANGED evVars
    /\ UNCHANGED memVars
    /\ UNCHANGED inVars
    /\ UNCHANGED cvVars
    /\ UNCHANGED rtVars

\* Top of a step with budget left: the next decision is requested and
\* truncated to the actions to run.
RunnerDecide ==
    /\ runner = "legacy" /\ pc = "head"
    /\ step < max_steps
    /\ ~(global_spent >= budget)
    /\ \E d \in Decisions :
        /\ decision' = d
        /\ pc' = IF ActionsToRun(d) = <<>> THEN "post" ELSE "exec"
    /\ observations' = <<>>
    /\ idx' = 1
    /\ lastOut' = "none"
    /\ UNCHANGED <<runner, budget, max_steps, max_actions_per_step,
                   steps_used, global_spent, step, consecutive_failures,
                   messages, result, executed, finalized, raised, inflight>>
    /\ UNCHANGED reset_calls
    /\ UNCHANGED brokerVars
    /\ UNCHANGED wfVars
    /\ UNCHANGED evVars
    /\ UNCHANGED memVars
    /\ UNCHANGED inVars
    /\ UNCHANGED cvVars
    /\ UNCHANGED rtVars

\* The rest of a pass of the for loop once _execute_tool has returned r:
\* the observation is appended and the global budget charged.
RunnerAfterTool(r) ==
    LET call == ActionsToRun(decision)[idx]
    IN  /\ observations' = Append(observations, ToolObs(idx, call.name, r))
        /\ global_spent' = global_spent + 1
        /\ finalized' = (finalized \/ (call.name = "finalize" /\ r.ok))
        /\ idx' = idx + 1
        /\ pc' = IF idx = Len(ActionsToRun(decision)) THEN "post" ELSE "exec"

\* One pass of the for loop over actions_to_run up to the await of the
\* implementation: the placeholder guard, the allowed_tools check, and the
\* hand-over to _execute_tool. A call that reaches no implementation gets
\* its observation at once.
RunnerExecCall ==
    /\ runner = "legacy" /\ pc = "exec"
    /\ LET call == ActionsToRun(decision)[idx]
           last == idx = Len(ActionsToRun(decision))
       IN  IF IsDict(call.args) /\ PlaceholderGuard(call.args)
           THEN /\ observations' = Append(observations,
                      ToolObs(idx, call.name,
                          Obs(FALSE, "placeholders not allowed",
                              NoStatus, FALSE)))
                /\ idx' = idx + 1
                /\ pc' = IF last THEN "post" ELSE "exec"
                /\ UNCHANGED <<global_spent, executed, finalized, lastOut,
                               inflight>>
           ELSE IF call.name \notin AllowedTools
           THEN /\ observations' = Append(observations,
                      ToolObs(idx, call.name,
                          Obs(FALSE, "tool not allowed", NoStatus, FALSE)))
                /\ idx' = idx + 1
                /\ pc' = IF last THEN "post" ELSE "exec"
                /\ UNCHANGED <<global_spent, executed, finalized, lastOut,
                               inflight>>
           ELSE IF Enters(call.name, call.args)
           THEN /\ inflight' = inflight \cup {idx}
                /\ executed' = executed + 1
                /\ pc' = "await"
                /\ UNCHANGED <<observations, global_spent, finalized, idx,
                               lastOut>>
           ELSE /\ executed' = executed + 1
                /\ lastOut' = "none"
                /\ RunnerAfterTool(_execute_tool(call.name, call.args, "ok"))
                /\ UNCHANGED inflight
    /\ UNCHANGED <<runner, budget, max_steps, max_actions_per_step,
                   steps_used, step, consecutive_failures, decision,
                   messages, result, raised>>
    /\ UNCHANGED reset_calls
    /\ UNCHANGED brokerVars
    /\ UNCHANGED wfVars
    /\ UNCHANGED evVars
    /\ UNCHANGED memVars
    /\ UNCHANGED inVars
    /\ UNCHANGED cvVars
    /\ UNCHANGED rtVars

\* The awaited implementation ends as the environment decides, at the
\* latest when asyncio.wait_for cancels it after per_step_seconds.
RunnerToolReturns(out) ==
    /\ runner = "legacy" /\ pc = "await"
    /\ LET call == ActionsToRun(decision)[idx]
       IN  /\ out \in EnvOutcomes(call.name)
           /\ lastOut' = out
           /\ inflight' = AfterAwait(idx)
           /\ RunnerAfterTool(_execute_tool(call.name, call.args, out))
    /\ UNCHANGED <<runner, budget, max_steps, max_actions_per_step,
                   steps_used, step, consecutive_failures, decision,
                   messages, result, executed, raised>>
    /\ UNCHANGED reset_calls
    /\ UNCHANGED brokerVars
    /\ UNCHANGED wfVars
    /\ UNCHANGED evVars
    /\ UNCHANGED memVars
    /\ UNCHANGED inVars
    /\ UNCHANGED cvVars
    /\ UNCHANGED rtVars

\* _next_decision fails (the request fails or the completion does not
\* validate against the AgentDecision schema): it raises RuntimeError,
\* which run() does not catch.
RunnerDecisionFails ==
    /\ runner = "legacy" /\ pc = "head"
    /\ step < max_steps
    /\ ~(global_spent >= budget)
    /\ raised' = "RuntimeError"
    /\ pc' = "raised"
    /\ UNCHANGED <<runner, budget, max_steps, max_actions_per_step,
                   steps_used, global_spent, step, consecutive_failures,
                   decision, idx, messages, observations, result, executed,
                   finalized, lastOut, inflight>>
    /\ UNCHANGED reset_calls
    /\ UNCHANGED brokerVars
    /\ UNCHANGED wfVars
    /\ UNCHANGED evVars
    /\ UNCHANGED memVars
    /\ UNCHANGED inVars
    /\ UNCHANGED cvVars
    /\ UNCHANGED rtVars

\* End of a step: auto-observation, transcript, and the terminate flag.
RunnerStepEnd ==
    /\ runner = "legacy" /\ pc = "post"
    /\ LET obs == Append(observations, AutoObs)
           finals == {i \in 1..Len(obs) : obs[i].tool = "finalize" /\ obs[i].ok}
           final == IF finals = {} THEN NoStatus
                    ELSE obs[CHOOSE i \in finals : \A j \in finals : j <= i].status
       IN  /\ observations' = obs
           /\ IF decision.terminate
              THEN /\ result' = Returned(TRUE, "", final)
                   /\ pc' = "done"
                   /\ step' = step
              ELSE /\ pc' = "head"
                   /\ step' = step + 1
                   /\ UNCHANGED result
    /\ UNCHANGED <<runner, budget, max_steps, max_actions_per_step,
                   steps_used, global_spent, consecutive_failures, decision,
                   idx, messages, executed, finalized, lastOut, raised, inflight>>
    /\ UNCHANGED reset_calls
    /\ UNCHANGED brokerVars
    /\ UNCHANGED wfVars
    /\ UNCHANGED evVars
    /\ UNCHANGED memVars
    /\ UNCHANGED inVars
    /\ UNCHANGED cvVars
    /\ UNCHANGED rtVars

\* Top of a step with the global budget spent.
RunnerBudgetExceeded ==
    /\ runner = "legacy" /\ pc = "head"
    /\ step < max_steps
    /\ global_spent >= budget
    /\ result' = Returned(FALSE, "global_budget_exceeded", NoStatus)
    /\ pc' = "done"
    /\ UNCHANGED <<runner, budget, max_steps, max_actions_per_step,
                   steps_used, global_spent, step, consecutive_failures,
                   decision, idx, messages, observations, executed,
                   finalized, lastOut, raised, inflight>>
    /\ UNCHANGED reset_calls
    /\ UNCHANGED brokerVars
    /\ UNCHANGED wfVars
    /\ UNCHANGED evVars
    /\ UNCHANGED memVars
    /\ UNCHANGED inVars
    /\ UNCHANGED cvVars
    /\ UNCHANGED rtVars

\* The for loop over steps is exhausted.
RunnerMaxSteps ==
    /\ runner = "legacy" /\ pc = "head"
    /\ ~(step < max_steps)
    /\ result' = Returned(FALSE, "max_steps_exceeded", NoStatus)
    /\ pc' = "done"
    /\ UNCHANGED <<runner, budget, max_steps, max_actions_per_step,
                   steps_used, global_spent, step, consecutive_failures,
                   decision, idx, messages, observations, executed,
                   finalized, lastOut, raised, inflight>>
    /\ UNCHANGED reset_calls
    /\ UNCHANGED brokerVars
    /\ UNCHANGED wfVars
    /\ UNCHANGED evVars
    /\ UNCHANGED memVars
    /\ UNCHANGED inVars
    /\ UNCHANGED cvVars
    /\ UNCHANGED rtVars

LoopNext ==
    \/ SDKStart
    \/ SDKDecide
    \/ \E modal_present \in BOOLEAN : SDKExecToolCall(modal_present)
    \/ \E out \in Outcomes, modal_present \in BOOLEAN :
          SDKToolReturns(out, modal_present)
    \/ SDKCompletionFails
    \/ SDKBudgetExceeded
    \/ RunnerStart
    \/ RunnerDecide
    \/ RunnerExecCall
    \/ \E out \in Outcomes : RunnerToolReturns(out)
    \/ RunnerDecisionFails
    \/ RunnerStepEnd
    \/ RunnerBudgetExceeded
    \/ RunnerMaxSteps

\* A run of a decision loop; the broker is not used.
InitLoop ==
    /\ LoopInit /\ BrokerInit /\ WorkflowIdle /\ NoEvents /\ MemoryInit
    /\ RunInputIdle /\ ConversationIdle /\ RetryIdle

LoopSpec == InitLoop /\ [][LoopNext]_vars


\* ------------------------------------------------------------------------
\* HumanIOBroker
\* ------------------------------------------------------------------------
Done(f) == f.state # "pending"

\* submit_input without the comparison of kinds
submit_input_AnyKind(run_id, kind, value) ==
    LET p == pending[run_id]
    IN  IF p = NoPending
        THEN [ret |-> FALSE, fut |-> fut]
        ELSE [ret |-> TRUE,
              fut |-> IF ~Done(fut[p.future])
                      THEN [fut EXCEPT ![p.future] =
                                [state |-> "result", value |-> value]]
                      ELSE fut]

\* HumanIOBroker.submit_input: the value returned and the futures after it.
submit_input(run_id, kind, value) ==
    LET p == pending[run_id]
    IN  IF p = NoPending \/ p.kind # kind
        THEN [ret |-> FALSE, fut |-> fut]
        ELSE [ret |-> TRUE,
              fut |-> IF ~Done(fut[p.future])
                      THEN [fut EXCEPT ![p.future] =
                                [state |-> "result", value |-> value]]
                      ELSE fut]

\* wait_for_input without the finally clause
PopPending_Keep(run_id) == pending

\* a finally clause that clears the whole pending table
PopPending_All(run_id) == [r \in RunIds |-> NoPending]

\* self._pending.pop(run_id, None)
PopPending(run_id) == [pending EXCEPT ![run_id] = NoPending]

\* a wait that returns an empty value when its timeout elapses
WaitOutcome_ReturnsOnTimeout(f) ==
    IF f.state = "result"
    THEN [how |-> "return", value |-> f.value]
    ELSE [how |-> "return", value |-> "none"]

\* How the await of wait_for ends on a future that is done: its result is
\* returned, its cancellation by the timeout surfaces as TimeoutError.
WaitOutcome(f) ==
    IF f.state = "result"
    THEN [how |-> "return", value |-> f.value]
    ELSE [how |-> "raise", value |-> "TimeoutError"]

\* wait_for_input up to its await: the future is created and registered.
\* Calls are numbered in the order they are made.
WaitForInput(w, run_id, kind) ==
    /\ wstate[w] = "idle"
    /\ \A v \in Waiters : v < w => wstate[v] # "idle"
    /\ fut' = [fut EXCEPT ![w] = NewFuture]
    /\ pending' = [pending EXCEPT ![run_id] = [future |-> w, kind |-> kind]]
    /\ wstate' = [wstate EXCEPT ![w] = "waiting"]
    /\ wrun' = [wrun EXCEPT ![w] = run_id]
    /\ wkind' = [wkind EXCEPT ![w] = kind]
    /\ UNCHANGED <<outcome, submits, lastSubmit, accepted>>
    /\ UNCHANGED loopVars
    /\ UNCHANGED wfVars
    /\ UNCHANGED evVars
    /\ UNCHANGED memVars
    /\ UNCHANGED inVars
    /\ UNCHANGED cvVars
    /\ UNCHANGED rtVars

\* The timeout of asyncio.wait_for elapses on a future still pending: the
\* future is cancelled.
TimerFires(w) ==
    /\ wstate[w] = "waiting"
    /\ ~Done(fut[w])
    /\ fut' = [fut EXCEPT ![w] = [state |-> "cancelled", value |-> "none"]]
    /\ UNCHANGED <<pending, wstate, wrun, wkind, outcome, submits,
                   lastSubmit, accepted>>
    /\ UNCHANGED loopVars
    /\ UNCHANGED wfVars
    /\ UNCHANGED evVars
    /\ UNCHANGED memVars
    /\ UNCHANGED inVars
    /\ UNCHANGED cvVars
    /\ UNCHANGED rtVars

\* The suspended wait_for_input resumes on its done future: the finally
\* clause pops the run's entry, the call returns or raises.
WaitResume(w) ==
    /\ wstate[w] = "waiting"
    /\ Done(fut[w])
    /\ pending' = PopPending(wrun[w])
    /\ outcome' = [outcome EXCEPT ![w] = WaitOutcome(fut[w])]
    /\ wstate' = [wstate EXCEPT ![w] = "settled"]
    /\ UNCHANGED <<fut, wrun, wkind, submits, lastSubmit, accepted>>
    /\ UNCHANGED loopVars
    /\ UNCHANGED wfVars
    /\ UNCHANGED evVars
    /\ UNCHANGED memVars
    /\ UNCHANGED inVars
    /\ UNCHANGED cvVars
    /\ UNCHANGED rtVars

\* main.submit_agent_input: POST /agent/input
submit_agent_input(run_id, kind, value) ==
    /\ submits < MaxSubmits
    /\ LET s == submit_input(run_id, kind, value)
           p == pending[run_id]
       IN  /\ fut' = s.fut
           /\ lastSubmit' = [run_id |-> run_id, kind |-> kind,
                             ret |-> s.ret,
                             status |-> IF ~s.ret THEN 404 ELSE 202,
                             entry |-> p]
           /\ accepted' =
                 IF s.ret
                 THEN [accepted EXCEPT ![p.future] =
                          [count |-> @.count + 1, value |-> value,
                           before |-> fut[p.future].state]]
                 ELSE accepted
    /\ submits' = submits + 1
    /\ UNCHANGED <<pending, wstate, wrun, wkind, outcome>>
    /\ UNCHANGED loopVars
    /\ UNCHANGED wfVars
    /\ UNCHANGED evVars
    /\ UNCHANGED memVars
    /\ UNCHANGED inVars
    /\ UNCHANGED cvVars
    /\ UNCHANGED rtVars

BrokerNext ==
    \/ \E w \in Waiters, r \in RunIds, k \in Kinds : WaitForInput(w, r, k)
    \/ \E w \in Waiters : TimerFires(w)
    \/ \E w \in Waiters : WaitResume(w)
    \/ \E r \in RunIds, k \in Kinds, v \in Values : submit_agent_input(r, k, v)

\* The broker alone; no decision loop is constructed.
InitBroker ==
    /\ LoopIdle /\ BrokerInit /\ WorkflowIdle /\ NoEvents /\ MemoryInit
    /\ RunInputIdle /\ ConversationIdle /\ RetryIdle

BrokerSpec == InitBroker /\ [][BrokerNext]_vars

\* The event loop runs every ready callback: an elapsed timeout cancels the
\* future, a done future resumes its waiter.
BrokerFairSpec ==
    /\ BrokerSpec
    /\ \A w \in Waiters : WF_vars(TimerFires(w))
    /\ \A w \in Waiters : WF_vars(WaitResume(w))


\* ------------------------------------------------------------------------
\* The event channel (events.py) and a request_input tool call of
\* AgentSDKRunner.run: t_request_input suspends in wait_for_input, and when
\* it has returned the loop publishes the tool_result event of the call
\* ------------------------------------------------------------------------
\* An event on the channel. A tool_result event carries the tool, its
\* arguments and its result; it has no run identifier.
ToolResultEvent(tool, kind, ok) ==
    [type |-> "tool_result", run_id |-> "none", tool |-> tool,
     kind |-> kind, ok |-> ok]

\* a publish without its try/except
publish_event_Unguarded(event, delivered) ==
    IF delivered
    THEN [how |-> "return", events |-> Append(events, event)]
    ELSE [how |-> "raise", events |-> events]

\* events.publish_event: how the call ends and the channel after it. Best
\* effort: a failure of the channel is swallowed and the event is lost.
publish_event(event, delivered) ==
    IF delivered
    THEN [how |-> "return", events |-> Append(events, event)]
    ELSE [how |-> "return", events |-> events]

\* The request_input call that made wait_for_input call w returns to the
\* loop: t_request_input turns the value into ok = True and the
\* TimeoutError into ok = False, execute_tool returns the dict, and the
\* loop publishes the tool_result event.
RequestInputReturns(w, delivered) ==
    /\ wstate[w] = "settled"
    /\ w \notin reported
    /\ reported' = reported \cup {w}
    /\ LET p == publish_event(
                    ToolResultEvent("request_input", wkind[w],
                        t_request_input({<<"kind", <<wkind[w]>>>>},
                            IF outcome[w].how = "return"
                            THEN "ok" ELSE "timeout").ok),
                    delivered)
       IN  /\ events' = p.events
           /\ pub' = [how |-> p.how, delivered |-> delivered]
    /\ UNCHANGED loopVars
    /\ UNCHANGED brokerVars
    /\ UNCHANGED wfVars
    /\ UNCHANGED memVars
    /\ UNCHANGED inVars
    /\ UNCHANGED cvVars
    /\ UNCHANGED rtVars

InputEventsNext ==
    \/ \E w \in Waiters, r \in RunIds, k \in Kinds : WaitForInput(w, r, k)
    \/ \E w \in Waiters : TimerFires(w)
    \/ \E w \in Waiters : WaitResume(w)
    \/ \E r \in RunIds, k \in Kinds, v \in Values : submit_agent_input(r, k, v)
    \/ \E w \in Waiters, delivered \in BOOLEAN : RequestInputReturns(w, delivered)

\* Runs that ask for human input through request_input, the broker, and
\* the event channel.
InitInputEvents ==
    /\ LoopIdle /\ BrokerInit /\ WorkflowIdle /\ NoEvents /\ MemoryInit
    /\ RunInputIdle /\ ConversationIdle /\ RetryIdle

InputEventsSpec == InitInputEvents /\ [][InputEventsNext]_vars

\* ------------------------------------------------------------------------
\* Agent runs started by the activities that ask for human input: the
\* identifier the request is registered under, the per-step timeout of
\* AgentRunner, and the run_id of the result of the run
\* ------------------------------------------------------------------------
Agents == {"authentication", "shopping"}

\* AuthenticationAgent runs AgentRunner, ShoppingAgent runs AgentSDKRunner.
RunnerOf(agent) == IF agent = "shopping" THEN "sdk" ELSE "legacy"

\* The run_id of the ToolEnv an activity builds:
\* payload.get("workflow_id") or the name of the agent.
ActivityRunId(workflow_id, agent) ==
    IF workflow_id = "" THEN agent ELSE workflow_id

\* The run_id of the dict run() returns: AgentSDKRunner reports agent_name,
\* AgentRunner a uuid4 it draws when the run starts.
ResultRunId(agent) ==
    IF RunnerOf(agent) = "sdk" THEN agent ELSE "uuid4"

\* The arguments of the request_input call behind wait_for_input call w.
RequestArgs(w) == {<<"kind", <<wkind[w]>>>>}

\* AgentRunner._execute_tool: the per-step timeout of wait_for elapses
\* while the request_input call of the authentication agent is suspended
\* in wait_for_input. The coroutine is cancelled: the finally clause pops
\* the run's entry, a future still pending is cancelled, CancelledError
\* passes t_request_input, and the dispatcher reports the timeout.
StepTimeout(w) ==
    /\ wstate[w] = "waiting"
    /\ hin[w] = NoHin
    /\ fut' = IF Done(fut[w]) THEN fut
              ELSE [fut EXCEPT ![w] = [state |-> "cancelled", value |-> "none"]]
    /\ pending' = PopPending(wrun[w])
    /\ outcome' = [outcome EXCEPT ![w] =
                      [how |-> "raise", value |-> "CancelledError"]]
    /\ wstate' = [wstate EXCEPT ![w] = "settled"]
    /\ hin' = [hin EXCEPT ![w] =
                  [agent |-> "authentication",
                   result |-> _execute_tool("request_input", RequestArgs(w),
                                            "cancelled"),
                   run_id |-> "none"]]
    /\ UNCHANGED <<wrun, wkind, submits, lastSubmit, accepted>>
    /\ UNCHANGED loopVars
    /\ UNCHANGED wfVars
    /\ UNCHANGED evVars
    /\ UNCHANGED memVars
    /\ UNCHANGED cvVars
    /\ UNCHANGED rtVars

\* wait_for_input has returned or raised in the request_input call of a
\* run of the agent: the dispatcher of its runner returns the result.
RequestInputResult(w, agent) ==
    /\ wstate[w] = "settled"
    /\ hin[w] = NoHin
    /\ LET out == IF outcome[w].how = "return" THEN "ok" ELSE "timeout"
       IN  hin' = [hin EXCEPT ![w] =
                     [agent |-> agent,
                      result |-> IF RunnerOf(agent) = "sdk"
                                 THEN execute_tool("request_input",
                                                   RequestArgs(w), out)
                                 ELSE _execute_tool("request_input",
                                                    RequestArgs(w), out),
                      run_id |-> "none"]]
    /\ UNCHANGED brokerVars
    /\ UNCHANGED loopVars
    /\ UNCHANGED wfVars
    /\ UNCHANGED evVars
    /\ UNCHANGED memVars
    /\ UNCHANGED cvVars
    /\ UNCHANGED rtVars

\* The run returns its result dict to the activity, which returns it to
\* the workflow.
RunReturns(w) ==
    /\ hin[w].agent # "none"
    /\ hin[w].run_id = "none"
    /\ hin' = [hin EXCEPT ![w].run_id = ResultRunId(hin[w].agent)]
    /\ UNCHANGED brokerVars
    /\ UNCHANGED loopVars
    /\ UNCHANGED wfVars
    /\ UNCHANGED evVars
    /\ UNCHANGED memVars
    /\ UNCHANGED cvVars
    /\ UNCHANGED rtVars

\* The workflow_id of the payload is the identifier the caller started the
\* workflow with (main.v2_run_shopping, main.v2_run_authentication).
RunInputNext ==
    \/ \E w \in Waiters, r \in RunIds, a \in Agents :
          WaitForInput(w, ActivityRunId(r, a), "email_continue")
    \/ \E w \in Waiters : TimerFires(w)
    \/ \E w \in Waiters : WaitResume(w)
    \/ \E r \in RunIds, k \in Kinds : submit_agent_input(r, k, "OK")
    \/ \E w \in Waiters : StepTimeout(w)
    \/ \E w \in Waiters, a \in Agents : RequestInputResult(w, a)
    \/ \E w \in Waiters : RunReturns(w)

InitRunInput ==
    /\ LoopIdle /\ BrokerInit /\ WorkflowIdle /\ NoEvents /\ MemoryInit
    /\ RunInputIdle /\ ConversationIdle /\ RetryIdle

RunInputSpec == InitRunInput /\ [][RunInputNext]_vars


\* One run (its identifier is that of its workflow) whose model asks for
\* help with a modal through request_input, call after call, while the
\* channel delivers or fails.
PublishNext ==
    \/ \E w \in Waiters : WaitForInput(w, "r1", "modal_help")
    \/ \E w \in Waiters : TimerFires(w)
    \/ \E w \in Waiters : WaitResume(w)
    \/ \E v \in Values : submit_agent_input("r1", "modal_help", v)
    \/ \E w \in Waiters, delivered \in BOOLEAN : RequestInputReturns(w, delivered)

InitPublish ==
    /\ LoopIdle /\ BrokerInit /\ WorkflowIdle /\ NoEvents /\ MemoryInit
    /\ RunInputIdle /\ ConversationIdle /\ RetryIdle

PublishSpec == InitPublish /\ [][PublishNext]_vars


\* ------------------------------------------------------------------------
\* The experience store (memory_store.py) on one (kind, site) bucket, and
\* the probe at the head of the loop of AgentSDKRunner.run that consults
\* it. AGENT_MEMORY_ENABLED has its default, true.
\* ------------------------------------------------------------------------
\* the keyword limits of a signature
TitleKws == 6
TextKws == 10

\* list[:n]
Take(seq, n) == SubSeq(seq, 1, Min(Len(seq), n))

\* set(list)
ToSet(seq) == {seq[i] : i \in 1..Len(seq)}

\* The entry record_experience builds: the keywords cut to their limits,
\* each recipe step reduced to its tool and args.
Entry(signature, recipe) ==
    [signature |-> [title_kws |-> Take(signature.title_kws, TitleKws),
                    text_kws |-> Take(signature.text_kws, TextKws)],
     recipe |-> [i \in 1..Len(recipe) |->
                    [tool |-> recipe[i].tool, args |-> recipe[i].args]]]

\* LPUSH key entry
lpush(list, entry) == <<entry>> \o list

\* LTRIM key 0 (max_keep - 1)
ltrim(list, max_keep) == Take(list, max_keep)

\* LRANGE key 0 (search_n - 1)
lrange(list, search_n) == Take(list, search_n)

\* memory_store._score
_score(sig_a, sig_b) ==
    Cardinality(ToSet(Take(sig_a.title_kws, TitleKws))
                    \cap ToSet(Take(sig_b.title_kws, TitleKws)))
    + Cardinality(ToSet(Take(sig_a.text_kws, TextKws))
                    \cap ToSet(Take(sig_b.text_kws, TextKws)))

\* The for loop of retrieve_known_resolution from item i on: an item
\* replaces best when its score is greater than best_score.
RECURSIVE BestOf(_, _, _, _, _)
BestOf(items, signature, i, best, best_score) ==
    IF i > Len(items) THEN best
    ELSE LET score == _score(signature, items[i].signature)
         IN  IF score > best_score
             THEN BestOf(items, signature, i + 1, items[i], score)
             ELSE BestOf(items, signature, i + 1, best, best_score)

\* a retrieval without its try/except
retrieve_known_resolution_Unguarded(list, signature, fails) ==
    IF fails
    THEN [how |-> "raise", recipe |-> NoRecipe]
    ELSE LET best == BestOf(lrange(list, SearchN), signature, 1, NoEntry, -1)
         IN  [how |-> "return",
              recipe |-> IF best.recipe # NoRecipe
                         THEN best.recipe ELSE NoRecipe]

\* memory_store.retrieve_known_resolution: how the call ends and what it
\* returns. best starts as None with best_score -1; the recipe of best is
\* returned if best has one; an exception of the storage is swallowed and
\* None returned.
retrieve_known_resolution(list, signature, fails) ==
    IF fails
    THEN [how |-> "return", recipe |-> NoRecipe]
    ELSE LET best == BestOf(lrange(list, SearchN), signature, 1, NoEntry, -1)
         IN  [how |-> "return",
              recipe |-> IF best.recipe # NoRecipe
                         THEN best.recipe ELSE NoRecipe]

\* record_experience up to the end of its LPUSH. An exception of the
\* storage is swallowed and the call returns.
RecordPush(c, call, fails) ==
    /\ rpc[c] = "idle"
    /\ Len(appended) < MaxRecords
    /\ IF fails
       THEN /\ rout' = [how |-> "return", failed |-> TRUE]
            /\ UNCHANGED <<store, appended, rpc>>
       ELSE /\ store' = lpush(store, Entry(call.signature, call.recipe))
            /\ appended' = lpush(appended, Entry(call.signature, call.recipe))
            /\ rpc' = [rpc EXCEPT ![c] = "pushed"]
            /\ UNCHANGED rout
    /\ UNCHANGED probe
    /\ UNCHANGED loopVars
    /\ UNCHANGED brokerVars
    /\ UNCHANGED wfVars
    /\ UNCHANGED evVars
    /\ UNCHANGED inVars
    /\ UNCHANGED cvVars
    /\ UNCHANGED rtVars

\* The LTRIM of record_experience and its return. An exception of the
\* storage is swallowed, the list stays as the LPUSH left it.
RecordTrim(c, fails) ==
    /\ rpc[c] = "pushed"
    /\ store' = IF fails THEN store ELSE ltrim(store, MaxKeep)
    /\ rpc' = [rpc EXCEPT ![c] = "idle"]
    /\ rout' = [how |-> "return", failed |-> fails]
    /\ UNCHANGED <<appended, probe>>
    /\ UNCHANGED loopVars
    /\ UNCHANGED brokerVars
    /\ UNCHANGED wfVars
    /\ UNCHANGED evVars
    /\ UNCHANGED inVars
    /\ UNCHANGED cvVars
    /\ UNCHANGED rtVars

\* a probe that finds the recipe and appends nothing
Probe_NoHint(list, modal_present, signature, fails) ==
    IF ~modal_present
    THEN [NoProbe EXCEPT !.next = "request"]
    ELSE LET r == retrieve_known_resolution(list, signature, fails)
         IN  [modal_present |-> TRUE, signature |-> signature,
              failed |-> fails, retrieved |-> r,
              hint |-> NoRecipe,
              next |-> "request"]

\* The head of a pass of the while loop of AgentSDKRunner.run, up to the
\* chat completion request: with a modal on the page the store is asked
\* for a recipe and a recipe found is appended as a KNOWN_RESOLUTION hint;
\* any exception in the probe is swallowed. The request follows.
Probe(list, modal_present, signature, fails) ==
    IF ~modal_present
    THEN [NoProbe EXCEPT !.next = "request"]
    ELSE LET r == retrieve_known_resolution(list, signature, fails)
         IN  [modal_present |-> TRUE, signature |-> signature,
              failed |-> fails, retrieved |-> r,
              hint |-> IF r.how = "return" THEN r.recipe ELSE NoRecipe,
              next |-> "request"]

SDKProbe(modal_present, signature, fails) ==
    /\ probe' = Probe(store, modal_present, signature, fails)
    /\ UNCHANGED <<store, appended, rpc, rout>>
    /\ UNCHANGED loopVars
    /\ UNCHANGED brokerVars
    /\ UNCHANGED wfVars
    /\ UNCHANGED evVars
    /\ UNCHANGED inVars
    /\ UNCHANGED cvVars
    /\ UNCHANGED rtVars

MemoryNext ==
    \/ \E c \in RunIds, call \in RecordCalls, fails \in BOOLEAN :
          RecordPush(c, call, fails)
    \/ \E c \in RunIds, fails \in BOOLEAN : RecordTrim(c, fails)
    \/ \E modal_present \in BOOLEAN, signature \in Signatures,
          fails \in BOOLEAN : SDKProbe(modal_present, signature, fails)

\* Runs that record to and read from one bucket of the store.
InitMemory ==
    /\ LoopIdle /\ BrokerInit /\ WorkflowIdle /\ NoEvents /\ MemoryInit
    /\ RunInputIdle /\ ConversationIdle /\ RetryIdle

MemorySpec == InitMemory /\ [][MemoryNext]_vars


\* ------------------------------------------------------------------------
\* ShoppingWorkflow and AuthenticationWorkflow: one activity that runs a
\* decision loop, and the signal endpoints of main.py
\* ------------------------------------------------------------------------
Workflows == {"shopping_v1", "authentication_v1"}

Signals == {"pause", "resume", "cancel"}

\* The signals ShoppingWorkflow defines: the class has a run method and
\* nothing else.
ShoppingWorkflowSignals == {}

\* RetryPolicy.maximum_attempts of the activity; 0 is the default of a
\* call that passes no policy and means unlimited.
MaximumAttempts(w) == IF w = "authentication_v1" THEN 2 ELSE 0

\* a policy that gives up at the first failure
RetryAllowed_Never(w, attempt) == FALSE

\* Whether a failed attempt is followed by another one.
RetryAllowed(w, attempt) ==
    MaximumAttempts(w) = 0 \/ attempt < MaximumAttempts(w)

\* start_workflow: the execution is Running and the first attempt of the
\* activity is under way.
WorkflowInit ==
    /\ wf \in Workflows
    /\ wf_state = "Running"
    /\ wf_attempt = 1
    /\ wf_steps = 0
    /\ wf_result = NoWfResult
    /\ wf_signals = 0
    /\ lastSignal = NoSignal

\* The decision loop inside the activity makes one tool-executing step.
\* Nothing in the activity or the loop reads a workflow state or a signal.
ActivityStep ==
    /\ wf_state = "Running"
    /\ wf_steps < MaxLoopSteps
    /\ wf_steps' = wf_steps + 1
    /\ UNCHANGED <<wf, wf_state, wf_attempt, wf_result, wf_signals,
                   lastSignal>>
    /\ UNCHANGED loopVars
    /\ UNCHANGED brokerVars
    /\ UNCHANGED evVars
    /\ UNCHANGED memVars
    /\ UNCHANGED inVars
    /\ UNCHANGED cvVars
    /\ UNCHANGED rtVars

\* The loop returns its result dict (terminated, or a reason); the
\* activity and the workflow return it: the execution is Completed.
ActivityReturns(terminated) ==
    /\ wf_state = "Running"
    /\ wf_result' = [returned |-> TRUE, terminated |-> terminated]
    /\ wf_state' = "Completed"
    /\ UNCHANGED <<wf, wf_attempt, wf_steps, wf_signals, lastSignal>>
    /\ UNCHANGED loopVars
    /\ UNCHANGED brokerVars
    /\ UNCHANGED evVars
    /\ UNCHANGED memVars
    /\ UNCHANGED inVars
    /\ UNCHANGED cvVars
    /\ UNCHANGED rtVars

\* The attempt fails (an exception leaves the activity, or its
\* start_to_close_timeout elapses): it is retried as the policy allows,
\* with a fresh browser and a fresh run, else execute_activity raises in
\* the workflow and the execution is Failed.
ActivityFails ==
    /\ wf_state = "Running"
    /\ IF RetryAllowed(wf, wf_attempt)
       THEN /\ wf_attempt < MaxAttempts
            /\ wf_attempt' = wf_attempt + 1
            /\ wf_steps' = 0
            /\ UNCHANGED wf_state
       ELSE /\ wf_state' = "Failed"
            /\ UNCHANGED <<wf_attempt, wf_steps>>
    /\ UNCHANGED <<wf, wf_result, wf_signals, lastSignal>>
    /\ UNCHANGED loopVars
    /\ UNCHANGED brokerVars
    /\ UNCHANGED evVars
    /\ UNCHANGED memVars
    /\ UNCHANGED inVars
    /\ UNCHANGED cvVars
    /\ UNCHANGED rtVars

\* main.signal_pause, signal_resume, signal_cancel: POST /v2/signal/<sig>.
\* The handler looks the signal up on ShoppingWorkflow; a signal the class
\* does not define raises before anything is sent, and the handler answers
\* 500. The workflow never sees the signal.
signal_endpoint(sig) ==
    /\ wf_signals < MaxSignals
    /\ wf_signals' = wf_signals + 1
    /\ lastSignal' = [name |-> sig,
                      status |-> IF sig \in ShoppingWorkflowSignals
                                 THEN 200 ELSE 500,
                      found |-> wf_state]
    /\ UNCHANGED <<wf, wf_state, wf_attempt, wf_steps, wf_result>>
    /\ UNCHANGED loopVars
    /\ UNCHANGED brokerVars
    /\ UNCHANGED evVars
    /\ UNCHANGED memVars
    /\ UNCHANGED inVars
    /\ UNCHANGED cvVars
    /\ UNCHANGED rtVars

WorkflowNext ==
    \/ ActivityStep
    \/ \E terminated \in BOOLEAN : ActivityReturns(terminated)
    \/ ActivityFails
    \/ \E sig \in Signals : signal_endpoint(sig)

\* A workflow execution; its decision loop is abstracted to its steps.
InitWorkflow ==
    /\ LoopIdle /\ BrokerInit /\ WorkflowInit /\ NoEvents /\ MemoryInit
    /\ RunInputIdle /\ ConversationIdle /\ RetryIdle

WorkflowSpec == InitWorkflow /\ [][WorkflowNext]_vars


\* ------------------------------------------------------------------------
\* ConversationAgent (conversation.py) and one execution of
\* ConversationWorkflow (conversation_workflow.py)
\* ------------------------------------------------------------------------
\* clarification_count >= 3, confidence < 0.5 (confidence is in tenths)
EscalationThreshold == 3
ConfidenceThreshold == 5

\* RetryPolicy(maximum_attempts=2) of every execute_activity call, and the
\* retries _delegate_with_retry allows (current_retries < 1)
ConversationMaximumAttempts == 2
DelegationRetries == 1

Intents == {"shopping", "out_of_scope"}
Confidences == {ConfidenceThreshold - 1, ConfidenceThreshold}
NextActions == {"await_user_input", "delegate_to_agent",
                "continue_conversation"}
\* task_payload: None or empty, a dict without shopping_list, a dict with it
Payloads == {"none", "other", "shopping_list"}

\* What the model can answer. valid is the verdict of the schema
\* validator on it; the fields of an invalid answer are never read.
ValidResponses ==
    [valid : {TRUE}, intent : Intents, confidence : Confidences,
     clarification_questions : {<<>>, <<"q">>},
     required : BOOLEAN, agent_type : AgentTypes, task_payload : Payloads,
     next_action : NextActions, needs_human_escalation : BOOLEAN]

\* The dict both fallbacks build.
Fallback(valid) ==
    [valid |-> valid, intent |-> "clarification_needed", confidence |-> 0,
     clarification_questions |-> <<>>,
     required |-> FALSE, agent_type |-> "none", task_payload |-> "none",
     next_action |-> "await_user_input", needs_human_escalation |-> FALSE]

\* _get_structured_response: the parsed answer; an answer that is not JSON
\* is replaced by the fallback dict, which is validated like any other.
Responses ==
    ValidResponses \cup {Fallback(TRUE), Fallback(FALSE)}

\* ConversationAgent._validate_and_enhance: an answer the schema rejects is
\* replaced by the fallback dict and returned; otherwise the four business
\* rules are applied in order.
_validate_and_enhance(response, clarification_count) ==
    IF ~response.valid
    THEN Fallback(TRUE)
    ELSE LET r1 == IF clarification_count >= EscalationThreshold
                   THEN [response EXCEPT !.needs_human_escalation = TRUE,
                                         !.next_action = "await_user_input",
                                         !.required = FALSE]
                   ELSE response
             r2 == IF r1.confidence < ConfidenceThreshold
                   THEN [r1 EXCEPT !.next_action = "await_user_input",
                                   !.required = FALSE]
                   ELSE r1
             r3 == IF r2.intent = "out_of_scope"
                   THEN [r2 EXCEPT !.required = FALSE]
                   ELSE r2
             r4 == IF /\ r3.required
                      /\ \/ r3.task_payload = "none"
                         \/ (/\ r3.agent_type = "shopping"
                             /\ r3.task_payload # "shopping_list")
                   THEN [r3 EXCEPT !.next_action = "await_user_input",
                                   !.required = FALSE]
                   ELSE r3
         IN  r4

\* The conversation activity: it runs ConversationAgent.run on the payload
\* and returns the validated decision.
run_conversation_activity(response, clarification_count) ==
    _validate_and_enhance(response, clarification_count)

\* A client starts the workflow with a user message.
ConversationInit ==
    /\ cv_pc = "start"
    /\ cv_count = 0
    /\ cv_arg = 0
    /\ cv_decision = NoConversationDecision
    /\ cv_retry = [a \in AgentTypes |-> 0]
    /\ cv_attempt = 0
    /\ cv_calls = 0
    /\ cv_runs = 0
    /\ cv_agent_result = NoAgentResult
    /\ cv_result = NoTurnResult

\* run(): the conversation activity returns the decision of the agent for
\* the answer of the model and the clarification count it was given.
ConversationActivity(response, clarification_count) ==
    /\ cv_pc = "start"
    /\ cv_arg' = clarification_count
    /\ cv_decision' = run_conversation_activity(response, clarification_count)
    /\ cv_pc' = "decided"
    /\ UNCHANGED <<cv_count, cv_retry, cv_attempt, cv_calls, cv_runs,
                   cv_agent_result, cv_result>>
    /\ UNCHANGED loopVars
    /\ UNCHANGED brokerVars
    /\ UNCHANGED wfVars
    /\ UNCHANGED evVars
    /\ UNCHANGED memVars
    /\ UNCHANGED inVars
    /\ UNCHANGED rtVars

\* The completion request fails in every attempt of a conversation
\* activity: execute_activity raises and the workflow fails.
ConversationActivityFails ==
    /\ cv_pc \in {"start", "followup"}
    /\ cv_pc' = "failed"
    /\ UNCHANGED <<cv_count, cv_arg, cv_decision, cv_retry, cv_attempt,
                   cv_calls, cv_runs, cv_agent_result, cv_result>>
    /\ UNCHANGED loopVars
    /\ UNCHANGED brokerVars
    /\ UNCHANGED wfVars
    /\ UNCHANGED evVars
    /\ UNCHANGED memVars
    /\ UNCHANGED inVars
    /\ UNCHANGED rtVars

\* run() from the decision to the delegation: the clarification count is
\* updated, an escalation returns human_escalation_needed, a next_action of
\* delegate_to_agent enters _delegate_with_retry, anything else returns.
HandleDecision ==
    /\ cv_pc = "decided"
    /\ cv_count' = IF /\ cv_decision.next_action = "await_user_input"
                      /\ cv_decision.clarification_questions # <<>>
                   THEN cv_count + 1 ELSE 0
    /\ IF cv_decision.needs_human_escalation
       THEN /\ cv_result' = [returned |-> TRUE,
                             next_action |-> "human_escalation_needed"]
            /\ cv_pc' = "done"
       ELSE IF cv_decision.next_action = "delegate_to_agent"
       THEN /\ cv_pc' = "delegate"
            /\ UNCHANGED cv_result
       ELSE /\ cv_result' = [returned |-> TRUE,
                             next_action |-> cv_decision.next_action]
            /\ cv_pc' = "done"
    /\ UNCHANGED <<cv_arg, cv_decision, cv_retry, cv_attempt, cv_calls,
                   cv_runs, cv_agent_result>>
    /\ UNCHANGED loopVars
    /\ UNCHANGED brokerVars
    /\ UNCHANGED wfVars
    /\ UNCHANGED evVars
    /\ UNCHANGED memVars
    /\ UNCHANGED inVars
    /\ UNCHANGED rtVars

\* The except clause of _delegate_with_retry: with no retry used the count
\* becomes one and the method calls itself; otherwise the count is reset
\* and the failure returned as a result.
DelegateFailure(agent_type) ==
    IF cv_retry[agent_type] < DelegationRetries
    THEN /\ cv_retry' = [cv_retry EXCEPT ![agent_type] = @ + 1]
         /\ cv_pc' = "delegate"
         /\ UNCHANGED cv_agent_result
    ELSE /\ cv_retry' = [cv_retry EXCEPT ![agent_type] = 0]
         /\ cv_agent_result' = [ok |-> FALSE, status |-> "failed",
                                raised |-> FALSE]
         /\ cv_pc' = "followup"

\* _delegate_with_retry up to the await of execute_activity. An unknown
\* agent type gets an ok = False result at once; for the shopping agent
\* the payload is unpacked first, which raises on None.
DelegateCall ==
    /\ cv_pc = "delegate"
    /\ LET agent_type == cv_decision.agent_type
       IN  IF agent_type = "none"
           THEN /\ cv_retry' = [cv_retry EXCEPT ![agent_type] = 0]
                /\ cv_agent_result' = [ok |-> FALSE, status |-> "none",
                                       raised |-> FALSE]
                /\ cv_pc' = "followup"
                /\ UNCHANGED <<cv_attempt, cv_calls, cv_runs>>
           ELSE IF agent_type = "shopping" /\ cv_decision.task_payload = "none"
           THEN /\ DelegateFailure(agent_type)
                /\ UNCHANGED <<cv_attempt, cv_calls, cv_runs>>
           ELSE /\ cv_calls' = cv_calls + 1
                /\ cv_attempt' = 1
                /\ cv_runs' = cv_runs + 1
                /\ cv_pc' = "agent"
                /\ UNCHANGED <<cv_retry, cv_agent_result>>
    /\ UNCHANGED <<cv_count, cv_arg, cv_decision, cv_result>>
    /\ UNCHANGED loopVars
    /\ UNCHANGED brokerVars
    /\ UNCHANGED wfVars
    /\ UNCHANGED evVars
    /\ UNCHANGED memVars
    /\ UNCHANGED inVars
    /\ UNCHANGED rtVars

\* The agent activity returns its result: the retry count is reset.
AgentActivityReturns(ok) ==
    /\ cv_pc = "agent"
    /\ cv_retry' = [cv_retry EXCEPT ![cv_decision.agent_type] = 0]
    /\ cv_agent_result' = [ok |-> ok, status |-> "completed",
                           raised |-> FALSE]
    /\ cv_pc' = "followup"
    /\ UNCHANGED <<cv_count, cv_arg, cv_decision, cv_attempt, cv_calls,
                   cv_runs, cv_result>>
    /\ UNCHANGED loopVars
    /\ UNCHANGED brokerVars
    /\ UNCHANGED wfVars
    /\ UNCHANGED evVars
    /\ UNCHANGED memVars
    /\ UNCHANGED inVars
    /\ UNCHANGED rtVars

\* An attempt of the agent activity fails: the retry policy of the call
\* starts another attempt until maximum_attempts, then execute_activity
\* raises into the except clause.
AgentActivityFails ==
    /\ cv_pc = "agent"
    /\ IF cv_attempt < ConversationMaximumAttempts
       THEN /\ cv_attempt' = cv_attempt + 1
            /\ cv_runs' = cv_runs + 1
            /\ UNCHANGED <<cv_pc, cv_retry, cv_agent_result>>
       ELSE /\ DelegateFailure(cv_decision.agent_type)
            /\ UNCHANGED <<cv_attempt, cv_runs>>
    /\ UNCHANGED <<cv_count, cv_arg, cv_decision, cv_calls, cv_result>>
    /\ UNCHANGED loopVars
    /\ UNCHANGED brokerVars
    /\ UNCHANGED wfVars
    /\ UNCHANGED evVars
    /\ UNCHANGED memVars
    /\ UNCHANGED inVars
    /\ UNCHANGED rtVars

\* The follow-up conversation activity returns and run() returns the
\* message with the next_action of the first decision.
FollowUpReturns ==
    /\ cv_pc = "followup"
    /\ cv_result' = [returned |-> TRUE,
                     next_action |-> cv_decision.next_action]
    /\ cv_pc' = "done"
    /\ UNCHANGED <<cv_count, cv_arg, cv_decision, cv_retry, cv_attempt,
                   cv_calls, cv_runs, cv_agent_result>>
    /\ UNCHANGED loopVars
    /\ UNCHANGED brokerVars
    /\ UNCHANGED wfVars
    /\ UNCHANGED evVars
    /\ UNCHANGED memVars
    /\ UNCHANGED inVars
    /\ UNCHANGED rtVars

ConversationNext ==
    \/ \E response \in Responses, c \in 0..MaxClarifications :
          ConversationActivity(response, c)
    \/ ConversationActivityFails
    \/ HandleDecision
    \/ DelegateCall
    \/ \E ok \in BOOLEAN : AgentActivityReturns(ok)
    \/ AgentActivityFails
    \/ FollowUpReturns

InitConversation ==
    /\ LoopIdle /\ BrokerInit /\ WorkflowIdle /\ NoEvents /\ MemoryInit
    /\ RunInputIdle /\ ConversationInit /\ RetryIdle

ConversationSpec == InitConversation /\ [][ConversationNext]_vars

\* ------------------------------------------------------------------------
\* retry_async (utils/retry_handler.py).  Durations are counted in tenths of
\* a second; random.uniform(-jitter, jitter) is any whole number of tenths
\* in that interval.
\* ------------------------------------------------------------------------
BaseDelay == 5          \* base_delay_seconds = 0.5
DefaultMaxDelay == 80   \* max_delay_seconds = 8.0
JitterDivisor == 5      \* jitter_fraction = 0.2
ShortMaxDelay == 10     \* a max_delay_seconds of 1.0 given by the caller

MaxDelays == {ShortMaxDelay, DefaultMaxDelay}

Jitter(delay) == delay \div JitterDivisor

SleepFor(delay, max_delay, u) == Max(0, Min(max_delay, delay + u))

NextDelay_Uncapped(delay, max_delay) == delay * 2

NextDelay(delay, max_delay) == Min(max_delay, delay * 2)

RetryInit ==
    /\ rt_pc = "operation"
    /\ rt_retries \in 0..MaxRetries
    /\ rt_max_delay \in MaxDelays
    /\ rt_attempt = 0
    /\ rt_delay = BaseDelay
    /\ rt_invocations = 0
    /\ rt_sleeps = <<>>
    /\ rt_outcome = NoRetryOutcome

\* `return await operation()` with operation() returning a value
OperationReturns ==
    /\ rt_pc = "operation"
    /\ rt_attempt <= rt_retries
    /\ rt_invocations' = rt_invocations + 1
    /\ rt_outcome' = [how |-> "return", value |-> "result"]
    /\ rt_pc' = "done"
    /\ UNCHANGED <<rt_retries, rt_max_delay, rt_attempt, rt_delay, rt_sleeps>>
    /\ UNCHANGED loopVars
    /\ UNCHANGED brokerVars
    /\ UNCHANGED wfVars
    /\ UNCHANGED evVars
    /\ UNCHANGED memVars
    /\ UNCHANGED inVars
    /\ UNCHANGED cvVars

\* operation() raises an Exception on an attempt that is not the last:
\* sleep, double the delay, count the attempt
OperationFailsAndSleeps ==
    /\ rt_pc = "operation"
    /\ rt_attempt <= rt_retries
    /\ rt_attempt # rt_retries
    /\ \E u \in (0 - Jitter(rt_delay))..Jitter(rt_delay) :
          rt_sleeps' = Append(rt_sleeps,
                              [delay |-> rt_delay,
                               sleep_for |-> SleepFor(rt_delay, rt_max_delay, u)])
    /\ rt_invocations' = rt_invocations + 1
    /\ rt_delay' = NextDelay(rt_delay, rt_max_delay)
    /\ rt_attempt' = rt_attempt + 1
    /\ UNCHANGED <<rt_pc, rt_retries, rt_max_delay, rt_outcome>>
    /\ UNCHANGED loopVars
    /\ UNCHANGED brokerVars
    /\ UNCHANGED wfVars
    /\ UNCHANGED evVars
    /\ UNCHANGED memVars
    /\ UNCHANGED inVars
    /\ UNCHANGED cvVars

\* operation() raises an Exception on the last attempt: break, then
\* `raise RetryError(...) from last_exc`
OperationFailsLast ==
    /\ rt_pc = "operation"
    /\ rt_attempt <= rt_retries
    /\ rt_attempt = rt_retries
    /\ rt_invocations' = rt_invocations + 1
    /\ rt_outcome' = [how |-> "raise", value |-> "RetryError"]
    /\ rt_pc' = "done"
    /\ UNCHANGED <<rt_retries, rt_max_delay, rt_attempt, rt_delay, rt_sleeps>>
    /\ UNCHANGED loopVars
    /\ UNCHANGED brokerVars
    /\ UNCHANGED wfVars
    /\ UNCHANGED evVars
    /\ UNCHANGED memVars
    /\ UNCHANGED inVars
    /\ UNCHANGED cvVars

RetryNext ==
    \/ OperationReturns
    \/ OperationFailsAndSleeps
    \/ OperationFailsLast

InitRetry ==
    /\ LoopIdle /\ BrokerInit /\ WorkflowIdle /\ NoEvents /\ MemoryInit
    /\ RunInputIdle /\ ConversationIdle /\ RetryInit

RetrySpec == InitRetry /\ [][RetryNext]_vars


\* ========================================================================
\* Properties of the decision loops (LoopSpec)
\* ========================================================================
BudgetReasons == {"max_steps_exceeded", "global_budget_exceeded"}

\* The tool observations of the decision being processed, for either
\* runner: the index of the call, the tool, ok, error, and whether the
\* implementation was entered.
ToolObservations ==
    IF runner = "sdk"
    THEN {[call |-> messages[j].call, tool |-> messages[j].tool,
           ok |-> messages[j].ok, error |-> messages[j].error,
           invoked |-> messages[j].invoked] :
            j \in {k \in 1..Len(messages) : messages[k].role = "tool"}}
    ELSE {[call |-> observations[j].call, tool |-> observations[j].tool,
           ok |-> observations[j].ok, error |-> observations[j].error,
           invoked |-> observations[j].invoked] :
            j \in {k \in 1..Len(observations) : observations[k].call # 0}}

\* How many observations call i of the decision has.
ObservationCount(i) ==
    IF runner = "sdk"
    THEN Cardinality({j \in 1..Len(messages) :
             messages[j].role = "tool" /\ messages[j].call = i})
    ELSE Cardinality({j \in 1..Len(observations) : observations[j].call = i})

\* C1: with a budget of N, as long as no finalize has succeeded at most N
\* tool calls are executed, also when one decision proposes several calls,
\* and a run that returns non-terminated carries a budget-exceeded reason.
C1_BudgetBound ==
    /\ ~finalized => executed <= budget
    /\ (result.returned /\ ~result.terminated) =>
          result.reason \in BudgetReasons

\* C2: a run returns terminated = true only if a finalize call of that run
\* returned ok (a termination flag alone or a failed finalize never does),
\* and a run that returns without it has terminated = false and a reason.
C2_TerminatedOnlyByFinalize ==
    result.returned =>
        /\ result.terminated => finalized
        /\ ~result.terminated => result.reason # ""

\* C3: a proposed tool call whose name is not in allowed_tools gets a
\* rejection observation and its implementation is never invoked.
C3_DisallowedNeverInvoked ==
    \A o \in ToolObservations :
        o.tool \notin AllowedTools => ~o.ok /\ ~o.invoked

\* C4: a proposed tool call with an unresolved placeholder marker in any
\* argument gets a placeholder-violation observation with ok = false and
\* its implementation is never invoked.
C4_PlaceholderRejected ==
    \A o \in ToolObservations :
        HasPlaceholder(decision.actions[o.call].args) =>
            /\ ~o.ok
            /\ ~o.invoked
            /\ o.error = "placeholders not allowed"

\* C5: once a decision has been processed, every tool call it contains has
\* exactly one observation, including the calls that follow a finalize call
\* or exceed max_actions_per_step.
C5_OneObservationPerCall ==
    (pc \in {"head", "done"}) =>
        \A i \in 1..Len(decision.actions) : ObservationCount(i) = 1

\* The tool call the for loop is at (pc is "exec" or "await").
CurrentCall ==
    IF runner = "sdk" THEN decision.actions[idx]
    ELSE ActionsToRun(decision)[idx]

\* C12: when the human-input wait of a request_input call times out, the
\* call gets an observation with ok = false, no exception leaves the loop,
\* and the run does not end with it: the loop goes on to the next tool
\* call or the next model decision.
C12_InputTimeoutObserved ==
    [][(/\ pc = "await"
        /\ CurrentCall.name = "request_input"
        /\ lastOut' = "timeout") =>
            /\ \E o \in ToolObservations' :
                  o.call = idx /\ o.tool = "request_input" /\ ~o.ok
            /\ \A i \in {idx} : ObservationCount(i)' = 1
            /\ raised' = ""
            /\ result' = result
            /\ pc' \in {"exec", "head", "post"}]_vars

\* the wait of a request_input call has timed out, its failed observation
\* is in the transcript, and the loop is back at its head with budget left
\* for a further decision
C12_Witness ==
    /\ runner = "sdk" /\ pc = "head"
    /\ lastOut = "timeout"
    /\ steps_used < budget
    /\ raised = ""
    /\ \E o \in ToolObservations : o.tool = "request_input" /\ ~o.ok

\* The run-level budget counter of the runner in use.
Counter == IF runner = "sdk" THEN steps_used ELSE global_spent

\* A step in which the execution of a tool call ends: an awaited
\* implementation completes or is cancelled, or the dispatcher answers a
\* call at once.
Completes ==
    \/ (inflight' # inflight /\ inflight' \subseteq inflight)
    \/ (executed' = executed + 1 /\ inflight' = inflight)

\* C13: the run-level budget counter goes up by exactly one in a step that
\* ends the execution of a tool call and is unchanged by every other step,
\* in particular by a decision that proposes no tool calls.
C13_CounterCountsToolCalls ==
    [][IF Completes THEN Counter' = Counter + 1
                    ELSE Counter' = Counter]_vars

\* C14: a tool call with an unknown tool name, or with arguments that do
\* not bind to the parameters of its tool (arguments that decode to a
\* non-object included), gets an observation with ok = false whose
\* implementation was not entered, and no exception leaves the loop.
C14_BadDispatchObserved ==
    [][(/\ pc = "exec"
        /\ ~Enters(CurrentCall.name, CurrentCall.args)) =>
            /\ raised' = ""
            /\ pc' # "raised"
            /\ \E o \in ToolObservations' :
                  o.call = idx /\ ~o.ok /\ ~o.invoked]_vars

\* C15: when the implementation of a tool call fails during execution, the
\* call gets an ok = false observation, the budget counter advances by
\* one, no exception leaves the loop, and the run does not end with it:
\* the loop goes on to the next tool call or the next model decision.
C15_ToolFailureObserved ==
    [][(pc = "await" /\ lastOut' = "raise") =>
            /\ \E o \in ToolObservations' :
                  o.call = idx /\ ~o.ok /\ o.invoked
            /\ \A i \in {idx} : ObservationCount(i)' = 1
            /\ Counter' = Counter + 1
            /\ raised' = ""
            /\ result' = result
            /\ pc' \in {"exec", "head", "post"}]_vars

\* the implementation of the first call of a decision raised, its failed
\* observation is recorded and charged, and the loop is at the second call
C15_Witness ==
    /\ pc = "exec" /\ idx = 2
    /\ lastOut = "raise"
    /\ decision.actions[1].name = "type"
    /\ Counter >= 1
    /\ \E o \in ToolObservations :
          o.call = 1 /\ ~o.ok /\ o.invoked /\ o.error = "exception"

\* C16: a tool call whose implementation has not completed when the
\* per-step timeout elapses is abandoned: it gets an ok = false timeout
\* observation and the run is not left suspended in the call.
C16_StepTimeoutEnforced ==
    [][(/\ pc = "await"
        /\ lastOut' = "timeout"
        /\ ToolImpl(CurrentCall.name, CurrentCall.args, "timeout").how
              = "hang") =>
            /\ pc' # "blocked"
            /\ inflight' = {}
            /\ \E o \in ToolObservations' :
                  o.call = idx /\ ~o.ok /\ o.error = "timeout"]_vars

\* The positions of the tool observations of the decision being processed,
\* and the call each one belongs to.
ObsPositions ==
    IF runner = "sdk"
    THEN {k \in 1..Len(messages) : messages[k].role = "tool"}
    ELSE {k \in 1..Len(observations) : observations[k].call # 0}

ObsCall(k) == IF runner = "sdk" THEN messages[k].call ELSE observations[k].call

\* C17: within a run the tool calls of a decision are executed in the
\* order given and one at a time: at most one implementation is in flight,
\* it is the call the loop is at, every earlier call of the decision has
\* its observation by then, and the observations are in the order of the
\* calls.
C17_OneToolAtATime ==
    /\ Cardinality(inflight) <= 1
    /\ inflight # {} =>
          /\ pc \in {"await", "blocked"}
          /\ inflight = {idx}
          /\ \A i \in 1..(idx - 1) : ObservationCount(i) = 1
    /\ \A j, k \in ObsPositions : j < k => ObsCall(j) < ObsCall(k)

\* the first call of a decision was cancelled by its timeout and has its
\* observation; the second call is in flight, alone
C17_Witness ==
    /\ pc = "await" /\ idx = 2
    /\ inflight = {2}
    /\ \E o \in ToolObservations :
          o.call = 1 /\ o.invoked /\ o.error = "timeout"

\* C18: whatever the model and the tools do, a failing or invalid model
\* completion included, no exception leaves run(): a run that has ended
\* has returned a structured result, with terminated = true or a reason.
C18_NoExceptionEscapes ==
    /\ raised = ""
    /\ pc # "raised"
    /\ pc = "done" =>
          (result.returned /\ (result.terminated \/ result.reason # ""))

\* A pass of the while loop of AgentSDKRunner.run in which the completion
\* carries no tool calls.
NoToolStep ==
    /\ runner = "sdk" /\ pc = "head" /\ pc' = "head"
    /\ decision'.actions = <<>>
    /\ messages' # <<>>

\* The auto-observations among the transcript entries appended in this
\* pass of the loop.
AutoObservations ==
    {j \in 1..Len(messages) : messages[j].kind = "auto_observe"}

\* C29: in a step where the model proposes no tool calls, the loop
\* executes no tool, appends exactly one auto-observation to the
\* transcript, and then requests another model decision: it is back at
\* the head of the loop with its condition true.
C29_NoToolStepContinues ==
    [][NoToolStep =>
          /\ executed' = executed
          /\ inflight' = {}
          /\ Cardinality(AutoObservations') = 1
          /\ result' = result
          /\ steps_used' < budget]_vars

\* A pass of the for loop of AgentSDKRunner.run gets the result of its
\* call: the tool message is appended and the step counted.
ToolCallStep ==
    /\ runner = "sdk" /\ pc \in {"exec", "await"}
    /\ steps_used' = steps_used + 1

\* C32: after each executed tool call the failure counter is zero if the
\* call succeeded and one more than before if it failed, so it counts the
\* failed calls since the last success; a call that does not end the run
\* is followed by the auto-observation, and the request_input hint is
\* appended after it if and only if the counter is two or more or the
\* snapshot shows a modal; a finalize that ends the run appends neither.
C32_HintAfterRepeatedFailures ==
    [][ToolCallStep =>
          LET n == Len(messages)
          IN  /\ Len(messages') > n
              /\ messages'[n + 1].role = "tool"
              /\ consecutive_failures' =
                    IF messages'[n + 1].ok THEN 0
                    ELSE consecutive_failures + 1
              /\ IF pc' = "done"
                 THEN Len(messages') = n + 1
                 ELSE /\ Len(messages') \in {n + 2, n + 3}
                      /\ messages'[n + 2].kind = "auto_observe"
                      /\ (Len(messages') = n + 3) <=>
                            (\/ consecutive_failures' >= 2
                             \/ messages'[n + 2].modal)
                      /\ (Len(messages') = n + 3) =>
                            messages'[n + 3].kind = "hint"]_vars

\* the second of two failed calls, with no modal on the page, has been
\* followed by the hint
C32_Witness ==
    /\ runner = "sdk" /\ consecutive_failures >= 2
    /\ Len(messages) >= 3
    /\ messages[Len(messages)].kind = "hint"
    /\ messages[Len(messages) - 1].kind = "auto_observe"
    /\ ~messages[Len(messages) - 1].modal
    /\ ~messages[Len(messages) - 2].ok

\* The counter of the iterations of a loop: steps_used of the while loop of
\* AgentSDKRunner.run, the loop variable of the for loop of AgentRunner.run.
LoopCounter == IF runner = "sdk" THEN steps_used ELSE step

\* A step that ends an iteration and goes back to the head of the loop.
NextIteration == pc' = "head" /\ pc \in {"head", "exec", "await", "post"}

\* C34: provided every completion and every tool execution returns, a run
\* returns: the counter of the loop never decreases and is greater at the
\* end of each iteration that does not end the run, and a run that has
\* ended without returning, or is suspended for good, has had a
\* completion that failed or a tool execution that did not return.
C34_RunReturns ==
    /\ [][LoopCounter' >= LoopCounter \/ pc \in {"idle", "start"}]_vars
    /\ [][NextIteration => LoopCounter' > LoopCounter]_vars
    /\ [](pc = "blocked" => lastOut = "timeout")
    /\ [](pc = "raised" => raised \in {"APIError", "RuntimeError"})

\* C30: in every run of a decision loop, once the loop has been entered
\* (before the first model decision and before any tool call) the reset
\* of transient browser state has been performed: cookies cleared and
\* local/session storage cleared.
C30_ResetBeforeFirstStep ==
    (pc \notin {"idle", "start"}) =>
        {"clear_cookies", "storage_clear"} \subseteq reset_calls

\* ========================================================================
\* Properties of the human-input broker (BrokerSpec, BrokerFairSpec)
\* ========================================================================
SubmitStep == submits' = submits + 1

\* C6: for every PendingInput at most one submit_input call returns true,
\* also when the second call arrives before the waiter has resumed.
C6_AtMostOneAccepted ==
    \A w \in Waiters : accepted[w].count <= 1

\* C7: submit_input returns true exactly when the run has a PendingInput
\* whose stored kind equals the submitted kind; otherwise it returns false,
\* /agent/input answers 404, and the pending table and every result slot
\* are unchanged.
C7_SubmitNeedsMatchingKind ==
    [][SubmitStep =>
        LET r == lastSubmit'.run_id
            k == lastSubmit'.kind
        IN  /\ lastSubmit'.ret <=>
                  (pending[r] # NoPending /\ pending[r].kind = k)
            /\ lastSubmit'.status = (IF lastSubmit'.ret THEN 202 ELSE 404)
            /\ ~lastSubmit'.ret => (pending' = pending /\ fut' = fut)]_vars

\* a submission of the wrong kind was answered 404 and the waiter's entry
\* and unresolved future are still in place
C7_Witness ==
    /\ lastSubmit.status = 404
    /\ lastSubmit.entry # NoPending
    /\ pending[lastSubmit.run_id] = lastSubmit.entry
    /\ fut[lastSubmit.entry.future].state = "pending"

\* The calls for run r, and whether r has only settled calls.
CallsFor(r) == {w \in Waiters : wstate[w] # "idle" /\ wrun[w] = r}

OnlySettled(r) ==
    /\ CallsFor(r) # {}
    /\ \A w \in CallsFor(r) : wstate[w] = "settled"

\* C8: when a wait_for_input call settles (value or timeout) the run's
\* entry is gone from the broker; from then on the call's outcome and the
\* submissions counted for it never change, and a submit_input for a run
\* whose calls have all settled returns false (404).
C8_SettledSlotRemoved ==
    [][/\ \A w \in Waiters :
            (wstate[w] = "waiting" /\ wstate'[w] = "settled") =>
                pending'[wrun[w]] = NoPending
       /\ \A w \in Waiters :
            wstate[w] = "settled" =>
                (outcome'[w] = outcome[w] /\ accepted'[w] = accepted[w])
       /\ (SubmitStep /\ OnlySettled(lastSubmit'.run_id)) =>
            (~lastSubmit'.ret /\ lastSubmit'.status = 404 /\ fut' = fut)]_vars

\* a call returned a submitted value and a later submission for the same
\* run and kind was refused
C8_Witness ==
    \E w \in Waiters :
        /\ wstate[w] = "settled"
        /\ outcome[w].how = "return"
        /\ OnlySettled(wrun[w])
        /\ lastSubmit.run_id = wrun[w]
        /\ lastSubmit.kind = wkind[w]
        /\ ~lastSubmit.ret

\* C9: a submission accepted while the waiter is pending and before its
\* timeout is the value that wait_for_input call returns.
C9_AcceptedValueReturned ==
    \A w \in Waiters :
        (/\ accepted[w].count > 0
         /\ accepted[w].before # "cancelled"
         /\ wstate[w] = "settled") =>
            outcome[w] = [how |-> "return", value |-> accepted[w].value]

\* A submission reached call w before its timeout (a submission accepted
\* after the timeout finds the future cancelled, and so does every later
\* one).
InTime(w) == accepted[w].count > 0 /\ accepted[w].before # "cancelled"

\* C10: a wait_for_input call that gets no accepted submission before its
\* deadline raises the timeout condition, never returns a value, and does
\* not stay suspended: no call is waiting forever (a call waits once, so
\* this is: every waiting call eventually settles).
C10_TimeoutRaised ==
    /\ [](\A w \in Waiters :
            (wstate[w] = "settled" /\ ~InTime(w)) =>
                outcome[w] = [how |-> "raise", value |-> "TimeoutError"])
    /\ \A w \in Waiters : []<>(wstate[w] # "waiting")

\* a call timed out and a submission for its run was refused
C10_Witness ==
    \E w \in Waiters :
        /\ wstate[w] = "settled"
        /\ accepted[w] = NoAccept
        /\ outcome[w].how = "raise"
        /\ lastSubmit.run_id = wrun[w]
        /\ ~lastSubmit.ret

\* The most recently registered call for run r (calls are numbered in the
\* order they are made); 0 when r has none.
Latest(r) ==
    IF CallsFor(r) = {} THEN 0
    ELSE CHOOSE w \in CallsFor(r) : \A v \in CallsFor(r) : v <= w

\* C11: when wait_for_input calls for one run overlap, the pending table
\* maps the run to its most recently registered request until that request
\* itself settles: the settlement of an earlier call never removes the
\* later call's registration, so the later call stays reachable by
\* submit_input while it is suspended.
C11_LatestStaysRegistered ==
    \A r \in RunIds :
        (Latest(r) # 0 /\ wstate[Latest(r)] = "waiting") =>
            pending[r].future = Latest(r)

\* The runs the step operates on: the run of the POST it handles, or the
\* run of the wait_for_input call it registers, times out or resumes.
Touched ==
    IF SubmitStep THEN {lastSubmit'.run_id}
    ELSE {wrun'[w] : w \in {v \in Waiters :
                               wstate'[v] # wstate[v] \/ fut'[v] # fut[v]}}

\* C28: a wait_for_input, submit_input or timeout for run A leaves every
\* other run B as it was: B's entry in the pending table with its stored
\* kind, and the future, position and outcome of every call made for B.
C28_NoCrossRunInterference ==
    [][\A b \in RunIds \ Touched :
          /\ pending'[b] = pending[b]
          /\ \A w \in Waiters :
                wrun[w] = b =>
                    /\ fut'[w] = fut[w]
                    /\ wstate'[w] = wstate[w]
                    /\ wkind'[w] = wkind[w]
                    /\ outcome'[w] = outcome[w]
                    /\ accepted'[w] = accepted[w]]_vars

\* two runs had a call each: the call of one has returned a submitted
\* value (registered, fulfilled, resumed), the call of the other is still
\* registered with its kind and its future unresolved
C28_Witness ==
    \E a, b \in Waiters :
        /\ wrun[a] # wrun[b]
        /\ wstate[a] = "settled" /\ outcome[a].how = "return"
        /\ wstate[b] = "waiting"
        /\ pending[wrun[b]] = [future |-> b, kind |-> wkind[b]]
        /\ fut[b] = NewFuture

\* ========================================================================
\* Properties of the event channel (InputEventsSpec)
\* ========================================================================
\* An event of the given type for the run and input kind is on the channel.
Published(type, run_id, kind) ==
    \E i \in 1..Len(events) :
        /\ events[i].type = type
        /\ events[i].run_id = run_id
        /\ events[i].kind = kind

\* C27: whenever a run is suspended in wait_for_input, an awaiting_human
\* event with its run identifier and input kind has been published, and
\* once the request has been fulfilled and the call has returned to the
\* loop a human_input event has been published.
C27_HumanInputEvents ==
    \A w \in Waiters :
        /\ wstate[w] = "waiting" =>
              Published("awaiting_human", wrun[w], wkind[w])
        /\ (w \in reported /\ outcome[w].how = "return") =>
              Published("human_input", wrun[w], wkind[w])

C35_ResultCarriesRequestId ==
    \A w \in Waiters :
        hin[w].run_id # "none" => hin[w].run_id = wrun[w]

\* The step is the per-step timeout of AgentRunner expiring on call w.
StepTimedOut(w) == wstate[w] = "waiting" /\ hin'[w] # hin[w]

\* C36: when the per-step timeout of AgentRunner expires while
\* request_input is suspended in wait_for_input, the entry of the run is
\* removed from the pending table, the call yields an observation with
\* ok = false that reports the timeout, and a submission for a run without
\* an entry returns false (status 404) and completes no future; the run
\* of a cancelled request has no entry unless a later request is waiting.
C36_StepTimeoutRemovesRequest ==
    /\ [][\A w \in Waiters : StepTimedOut(w) =>
              /\ pending'[wrun[w]] = NoPending
              /\ wstate'[w] = "settled"
              /\ ~hin'[w].result.ok
              /\ hin'[w].result.error = "timeout"
              /\ hin'[w].result.invoked]_vars
    /\ [][(SubmitStep /\ pending[lastSubmit'.run_id] = NoPending) =>
              /\ ~lastSubmit'.ret
              /\ lastSubmit'.status = 404
              /\ fut' = fut]_vars
    /\ [](\A w \in Waiters :
            (/\ outcome[w].value = "CancelledError"
             /\ ~\E v \in Waiters :
                    v > w /\ wrun[v] = wrun[w] /\ wstate[v] = "waiting")
            => pending[wrun[w]] = NoPending)

\* a request of the authentication agent was cancelled by the per-step
\* timeout with its future still pending, the dispatcher reported the
\* timeout, and a submission of the right kind for the run found no entry
\* and was refused
C36_Witness ==
    \E w \in Waiters :
        /\ outcome[w].value = "CancelledError"
        /\ fut[w].state = "cancelled"
        /\ accepted[w].count = 0
        /\ hin[w].result = Obs(FALSE, "timeout", NoStatus, TRUE)
        /\ pending[wrun[w]] = NoPending
        /\ lastSubmit.run_id = wrun[w] /\ lastSubmit.kind = wkind[w]
        /\ lastSubmit.entry = NoPending /\ ~lastSubmit.ret

\* ========================================================================
\* Properties of the conversation workflow (ConversationSpec)
\* ========================================================================
\* run() is outside _delegate_with_retry.
Delegated == cv_pc \in {"followup", "done", "failed"}

\* C37: per delegation the agent activity is executed at most twice (one
\* retry), by at most two execute_activity calls; a failure that remains
\* is returned as a result with ok = false and status failed, not raised;
\* and whenever _delegate_with_retry has returned the retry count of
\* every agent type is zero.
C37_DelegationRetriesOnce ==
    /\ cv_runs <= DelegationRetries + 1
    /\ cv_calls <= DelegationRetries + 1
    /\ cv_agent_result.status = "failed" =>
          (~cv_agent_result.ok /\ ~cv_agent_result.raised)
    /\ Delegated => \A a \in AgentTypes : cv_retry[a] = 0

\* C38: a decision made with a clarification count of three or more has
\* needs_human_escalation true, next_action await_user_input and no
\* delegation required, and the workflow returns human_escalation_needed
\* without calling an agent activity.
C38_EscalatesAfterThree ==
    (cv_decision # NoConversationDecision /\ cv_arg >= EscalationThreshold)
    => /\ cv_decision.needs_human_escalation
       /\ cv_decision.next_action = "await_user_input"
       /\ ~cv_decision.required
       /\ cv_calls = 0 /\ cv_runs = 0
       /\ cv_pc \notin {"delegate", "agent", "followup"}
       /\ cv_result.returned =>
             cv_result.next_action = "human_escalation_needed"

\* C39: whenever the validated decision has intent out_of_scope or a
\* confidence below 0.5, its agent_delegation.required is false and the
\* workflow executes no authentication or shopping activity in the turn.
C39_NoDelegationOutOfScope ==
    (/\ cv_decision # NoConversationDecision
     /\ \/ cv_decision.intent = "out_of_scope"
        \/ cv_decision.confidence < ConfidenceThreshold)
    => /\ ~cv_decision.required
       /\ cv_runs = 0

\* ========================================================================
\* Properties of retry_async (RetrySpec)
\* ========================================================================

\* The delay before jitter of the i-th sleep: the base delay doubled i - 1
\* times, capped at max_delay_seconds.
UnjitteredDelay(i) == Min(rt_max_delay, BaseDelay * 2^(i - 1))

\* C40: retry_async invokes the operation at most retries + 1 times; it
\* returns at the first successful invocation, every earlier invocation
\* having failed and having been followed by one sleep; it raises RetryError
\* exactly when retries + 1 invocations have failed, and then it has slept
\* retries times only, so never after the final failure; the i-th sleep is
\* derived from the base delay doubled i - 1 times and capped at
\* max_delay_seconds, and lasts between 0 and max_delay_seconds, within the
\* jitter of that delay.
C40_RetryBounded ==
    /\ rt_invocations <= rt_retries + 1
    /\ rt_pc = "operation" =>
          /\ rt_outcome = NoRetryOutcome
          /\ rt_invocations = Len(rt_sleeps)
          /\ rt_invocations <= rt_retries
    /\ rt_outcome.how = "return" =>
          /\ rt_pc = "done"
          /\ rt_invocations = Len(rt_sleeps) + 1
    /\ rt_outcome.how = "raise" <=>
          /\ rt_pc = "done"
          /\ rt_invocations = rt_retries + 1
          /\ Len(rt_sleeps) = rt_retries
          /\ rt_outcome.value = "RetryError"
    /\ \A i \in 1..Len(rt_sleeps) :
          /\ rt_sleeps[i].delay = UnjitteredDelay(i)
          /\ rt_sleeps[i].sleep_for >= 0
          /\ rt_sleeps[i].sleep_for <= rt_max_delay
          /\ rt_sleeps[i].sleep_for >= rt_sleeps[i].delay - Jitter(rt_sleeps[i].delay)
          /\ rt_sleeps[i].sleep_for <= rt_sleeps[i].delay + Jitter(rt_sleeps[i].delay)

\* every invocation failed, and the third sleep was derived from a delay
\* that the cap had cut
C40_Witness ==
    /\ rt_outcome.how = "raise"
    /\ rt_retries >= 3
    /\ rt_sleeps[3].delay = rt_max_delay
    /\ rt_sleeps[3].delay < BaseDelay * 4

\* ========================================================================
\* Properties of the experience store (MemorySpec)
\* ========================================================================
\* The step is a probe that asked the store for a recipe and got its
\* answer from a working storage.
Retrieves == probe' # probe /\ probe'.modal_present /\ ~probe'.failed

\* The entries of the bucket that have a recipe and a score greater than
\* zero against the signature (positions; 1 is the most recent insertion).
Scoring(signature) ==
    {i \in 1..Len(store) :
        /\ store[i].recipe # NoRecipe
        /\ _score(signature, store[i].signature) > 0}

\* Among them the one with the highest score, the most recently inserted
\* one among equal scores.
Winner(signature) ==
    CHOOSE i \in Scoring(signature) :
        \A j \in Scoring(signature) :
            \/ _score(signature, store[j].signature)
                   < _score(signature, store[i].signature)
            \/ (/\ _score(signature, store[j].signature)
                       = _score(signature, store[i].signature)
                /\ i <= j)

\* C23: retrieve_known_resolution returns none whenever no entry of the
\* bucket has a score greater than zero against the query signature, also
\* when the bucket holds entries with a recipe.
C23_ZeroScoreNoSuggestion ==
    [][(/\ Retrieves
        /\ \A i \in 1..Len(store) :
              _score(probe'.signature, store[i].signature) = 0) =>
            probe'.retrieved.recipe = NoRecipe]_vars

\* C24: when the bucket has scoring entries with a recipe,
\* retrieve_known_resolution returns the recipe of the one with the highest
\* score, the most recently inserted one among equal scores; an entry with
\* an empty recipe never hides it.
C24_BestRecipeWins ==
    [][(Retrieves /\ Scoring(probe'.signature) # {}) =>
            probe'.retrieved.recipe
                = store[Winner(probe'.signature)].recipe]_vars

\* C25: whenever no record_experience call is in progress the bucket holds
\* at most max_keep entries and they are the most recently appended ones
\* in insertion order; a step never modifies or reorders the entries that
\* stay: it adds one at the head or drops entries from the tail.
C25_BoundedRing ==
    /\ []((\A c \in RunIds : rpc[c] = "idle") =>
            /\ Len(store) <= MaxKeep
            /\ store = Take(appended, MaxKeep))
    /\ [][\/ (Len(store') = Len(store) + 1 /\ Tail(store') = store)
          \/ \E k \in 0..Len(store) : store' = Take(store, k)]_vars

\* C26: a failure of the storage never fails the calling step: a
\* record_experience call returns, retrieve_known_resolution returns none,
\* and the step of the loop that asked the store goes on to the model
\* request with the hint it would have with an empty bucket (none).
C26_StorageFailureSwallowed ==
    /\ rout.how # "raise"
    /\ probe.retrieved.how # "raise"
    /\ probe.next \in {"none", "request"}
    /\ probe.failed =>
          /\ probe.retrieved = [how |-> "return", recipe |-> NoRecipe]
          /\ probe.hint = Probe(<<>>, TRUE, probe.signature, FALSE).hint
          /\ probe.next = Probe(<<>>, TRUE, probe.signature, FALSE).next

\* a record_experience call returned after a storage command had failed
\* in it, and a probe whose retrieval failed went on to the model request
\* without a hint although the bucket holds a scoring recipe for its modal
C26_Witness ==
    /\ rout = [how |-> "return", failed |-> TRUE]
    /\ probe.modal_present /\ probe.failed
    /\ probe.hint = NoRecipe /\ probe.next = "request"
    /\ Scoring(probe.signature) # {}

\* C31: when a modal is on the page at the head of a pass and the store
\* returns a recipe, the steps of the recipe are appended as a
\* KNOWN_RESOLUTION hint and the chat completion request follows; without
\* a recipe no hint is appended; and the probe hands no call to a tool
\* dispatcher: the calls executed stay those of the model's decisions.
C31_RecipeIsOnlyAHint ==
    /\ [](probe.modal_present /\ probe.retrieved.recipe # NoRecipe =>
            /\ probe.hint = probe.retrieved.recipe
            /\ probe.next = "request")
    /\ [](probe.hint # NoRecipe =>
            probe.modal_present /\ probe.retrieved.recipe = probe.hint)
    /\ [][probe' # probe =>
            /\ executed' = executed
            /\ inflight' = inflight
            /\ messages' = messages]_vars

\* a probe found a modal, the store returned the recipe of a matching
\* entry, and the step went on to the request with the recipe as its hint
C31_Witness ==
    /\ probe.modal_present /\ ~probe.failed
    /\ probe.retrieved.recipe # NoRecipe
    /\ Scoring(probe.signature) # {}
    /\ probe.hint = store[Winner(probe.signature)].recipe
    /\ probe.next = "request"

\* ========================================================================
\* Properties of the workflows (WorkflowSpec)
\* ========================================================================
TerminalStates == {"Completed", "Failed", "Cancelled"}

\* The step handles a POST of signal sig.
Signalled(sig) == wf_signals' = wf_signals + 1 /\ lastSignal'.name = sig

C20_PauseStopsSteps ==
    /\ []((lastSignal.name = "pause" /\ lastSignal.found = "Running") =>
            wf_state # "Running")
    /\ [][(lastSignal.name = "pause" /\ lastSignal.found = "Running") =>
            (wf_steps' = wf_steps /\ wf_attempt' = wf_attempt)]_vars

\* C21: once a cancel has been requested for a workflow execution that has
\* not ended, the workflow state is Cancelled.
C21_CancelSetsCancelled ==
    (lastSignal.name = "cancel" /\ lastSignal.found \notin TerminalStates) =>
        wf_state = "Cancelled"

\* C22: the activity of every workflow runs under a bounded retry policy:
\* a failed attempt is followed by another one only while the attempts made
\* are below the finite maximum of the policy, so that an activity failing
\* on every attempt ends the workflow in Failed.
C22_BoundedRetry ==
    [][wf_attempt' > wf_attempt =>
          (MaximumAttempts(wf) # 0 /\ wf_attempt < MaximumAttempts(wf))]_vars

====
